---- MODULE Spec2Model ----
(***************************************************************************)
(* Model of twitch-indicator: the local OAuth capture subsystem            *)
(* (src/api/oauth.rs) and the cursor pagination of the API client          *)
(* (src/api/client.rs).                                                    *)
(*                                                                         *)
(* The runtime is single threaded (main.rs: flavor = "current_thread"), so *)
(* the spawned listener task only runs while the task that called          *)
(* authenticate() is suspended, and everything a task does between two     *)
(* await points is one step.                                               *)
(***************************************************************************)
EXTENDS Integers, Sequences, FiniteSets, TLC

\* ------------------------------------------------------------------ bounds
MaxAttempts == 2
MaxConns == 3
MaxPages == 4
MaxRequests == 5
MaxCallPages == 2
MaxTicks == 2
MaxQueryLen == 3
MaxValidations == 2

\* ------------------------------------------------------- program constants
REDIRECT_PORT == 17563

VARIABLES
    attempt,        \* number of authenticate() calls started so far
    apc,            \* position of the task running authenticate()
    nonce,          \* `state` of the running attempt (uuid, fresh per call)
    authResult,     \* what the last authenticate() returned (<<>> = not yet)
    chan,           \* per attempt: the oneshot channel
    lpc,            \* position of the spawned listener task
    latt,           \* attempt that spawned the listener task
    lstate,         \* `state` captured by the listener task
    conn,           \* connection the listener task is working on
    ports,          \* loopback ports held by this process
    accepted,       \* connections accepted so far
    sends,          \* per attempt: calls of sender.send
    binds,          \* per attempt: calls of TcpListener::bind
    spawned,        \* per attempt: listener task spawned
    opened,         \* per attempt: calls of webbrowser::open
    deliveredBy,    \* per attempt: the connection whose token was sent
    auth_url,       \* per attempt: the `state` in the URL given to the browser
    cb_request,     \* code flow: the request given to handle_https_request
    cb_result,      \* what the request handler under study returned (<<>> = not yet)
    pages,          \* the paginated source seen by get_followed_channels
    access_token,   \* TwitchClient.access_token
    gpc,            \* position inside get_followed_channels
    cursor,         \* local `cursor`
    all_channels,   \* local `all_channels`
    requests,       \* requests issued on the network, in order
    gResult,        \* what the API operation returned (<<>> = not yet)
    call,           \* the API operation called and its id list
    ipc,            \* position of the task running TwitchIndicator::run
    config_token,   \* config.twitch.access_token of the shared config
    authenticated_user, \* TwitchIndicator.authenticated_user
    current_streams,    \* TwitchIndicator.current_streams
    shown_streams,  \* NotificationManager.shown_streams
    notify_enabled, \* NotificationManager.config.enabled
    notified,       \* notifications displayed so far
    resp,           \* response to the request update_streams is waiting for
    inflight,       \* update_streams calls whose result is not yet processed
    ticks,          \* ticks of the interval timer consumed
    api_requests,   \* API requests the indicator put on the network
    reauths,        \* authenticate() calls made by the periodic loop
    file_token,     \* access_token in the persisted config.toml
    auth_call,      \* last TwitchClient::authenticate: outcome, tokens before it
    spc,            \* the --gtk-settings process: "none" or "open"
    settings_token, \* access_token of the config that process loaded
    settings_client_id, \* twitch.client_id of the config that process loaded
    failed,         \* ids whose notification failed to display in the last successful poll
    notify_count,   \* per id: notifications displayed since the id was last absent
    tray_streams,   \* SystemTray.streams
    tray_pc,        \* SystemTray::run: "none", "run", "signalled", "returned"
    config_settings,    \* the validated fields of the shared config
    file_settings,  \* the same fields in the persisted config.toml
    import_file     \* the file import_settings was called with

codeflowVars == <<cb_request, cb_result>>
oauthVars == <<attempt, apc, nonce, authResult, chan, lpc, latt, lstate, conn,
               ports, accepted, sends, binds, spawned, opened, deliveredBy,
               auth_url, cb_request, cb_result>>
pageVars == <<pages, access_token, gpc, cursor, all_channels, requests, gResult, call>>
apiLocals == <<pages, gpc, cursor, all_channels, requests, gResult, call>>
tokenVars == <<file_token, auth_call>>
settingsVars == <<spc, settings_token, settings_client_id>>
notifyLog == <<failed, notify_count>>
trayVars == <<tray_streams, tray_pc>>
fileVars == <<config_settings, file_settings, import_file>>
pollVars == <<ipc, config_token, authenticated_user, current_streams, shown_streams,
              notify_enabled, notified, resp, inflight, ticks, api_requests, reauths,
              file_token, auth_call, spc, settings_token, settings_client_id,
              failed, notify_count, tray_streams, tray_pc,
              config_settings, file_settings, import_file>>
vars == <<attempt, apc, nonce, authResult, chan, lpc, latt, lstate, conn,
          ports, accepted, sends, binds, spawned, opened, deliveredBy,
          auth_url, cb_request, cb_result,
          pages, access_token, gpc, cursor, all_channels, requests, gResult, call,
          ipc, config_token, authenticated_user, current_streams, shown_streams,
          notify_enabled, notified, resp, inflight, ticks, api_requests, reauths,
          file_token, auth_call, spc, settings_token, settings_client_id,
          failed, notify_count, tray_streams, tray_pc,
          config_settings, file_settings, import_file>>

Attempts == 1..MaxAttempts

\* ------------------------------------------------------------ result values
\* Result<TokenResponse> as sent on the channel and returned by authenticate()
OkToken(at, tt) == [ok |-> TRUE, access_token |-> at, token_type |-> tt, err |-> ""]
AuthErr(e) == [ok |-> FALSE, access_token |-> "", token_type |-> "", err |-> e]

\* Result<Option<TokenResponse>> of the request handler
HandlerSome(at, tt) == [tag |-> "some", access_token |-> at, token_type |-> tt, err |-> ""]
HandlerNone == [tag |-> "none", access_token |-> "", token_type |-> "", err |-> ""]
HandlerErr(e) == [tag |-> "err", access_token |-> "", token_type |-> "", err |-> e]

\* ------------------------------------------------------------- connections
NoState == -1
StateVals == 0..MaxAttempts          \* 0 is never the nonce of an attempt
Tokens == {"T1", "T2"}

\* fields of the JSON body of a POST /token; <<>> is an absent field
NoJson == [access_token |-> <<>>, token_type |-> <<>>, scope |-> FALSE, state |-> NoState]
TokenJson(at, st) ==
    [access_token |-> <<at>>, token_type |-> <<"bearer">>, scope |-> TRUE, state |-> st]

\* a connection made to the listener: the outcome of the TLS handshake, of
\* reading the request line, the request line, the headers and body that
\* follow, and whether the peer still takes the response. `stall` names the
\* await the peer never lets complete: "handshake" when it never finishes
\* the TLS handshake, "request" when it never sends a request line.
BaseConn ==
    [tls |-> TRUE, rd |-> TRUE, method |-> "GET", path |-> "/", error |-> "",
     state |-> NoState, hdr |-> TRUE, clen |-> "exact", utf8 |-> TRUE,
     json |-> NoJson, wr |-> TRUE, stall |-> ""]
NoConn == [BaseConn EXCEPT !.method = "-"]

FailedHandshakes == {[BaseConn EXCEPT !.tls = FALSE]}
UnreadableRequests == {[BaseConn EXCEPT !.rd = FALSE]}
StalledConnections == {[BaseConn EXCEPT !.stall = w] : w \in {"handshake", "request"}}
MalformedLines == {[BaseConn EXCEPT !.method = "", !.path = "", !.wr = w] : w \in BOOLEAN}
BootstrapGets == {[BaseConn EXCEPT !.wr = w] : w \in BOOLEAN}
DeniedRedirects ==
    {[BaseConn EXCEPT !.error = "access_denied", !.state = s] : s \in StateVals}
TokenPosts ==
    {[BaseConn EXCEPT !.method = "POST", !.path = "/token", !.json = TokenJson(t, s), !.wr = w] :
        t \in Tokens, s \in StateVals \cup {NoState}, w \in BOOLEAN}
BasePost == [BaseConn EXCEPT !.method = "POST", !.path = "/token", !.json = TokenJson("T1", NoState)]
BrokenPosts ==
    {[BasePost EXCEPT !.hdr = FALSE], [BasePost EXCEPT !.utf8 = FALSE],
     [BasePost EXCEPT !.clen = "none"], [BasePost EXCEPT !.clen = "short"],
     [BasePost EXCEPT !.clen = "long"],
     [BasePost EXCEPT !.json = [TokenJson("T1", NoState) EXCEPT !.access_token = <<>>]],
     [BasePost EXCEPT !.json = [TokenJson("T1", NoState) EXCEPT !.token_type = <<>>]],
     [BasePost EXCEPT !.json = [TokenJson("T1", NoState) EXCEPT !.scope = FALSE]]}
Connections ==
    FailedHandshakes \cup UnreadableRequests \cup MalformedLines \cup BootstrapGets
        \cup DeniedRedirects \cup TokenPosts \cup BrokenPosts \cup StalledConnections

\* ------------------------------------------------------------------ channel
NoChannel == [val |-> <<>>, tx |-> FALSE, rx |-> FALSE]
NewChannel == [val |-> <<>>, tx |-> TRUE, rx |-> TRUE]

\* sender.send(r): consumes the sender; the value is stored only while the
\* receiver is alive (the Err of a failed send is discarded by `let _ =`)
Send(ch, r) == IF ch.rx THEN [ch EXCEPT !.val = <<r>>, !.tx = FALSE] ELSE [ch EXCEPT !.tx = FALSE]

\* dropping the sender without sending
DropSender(ch) == [ch EXCEPT !.tx = FALSE]

\* ---------------------------------------------------------- request handler
\* serde_json::from_str::<TokenResponse>: access_token, token_type and scope
\* are required, refresh_token is optional, unknown fields are ignored
DecodesAsTokenResponse(j) == j.access_token # <<>> /\ j.token_type # <<>> /\ j.scope

\* request_line.starts_with("POST /token")
StartsWithPostToken(c) == c.method = "POST" /\ c.path = "/token"

\* variant: the POST /token route is not recognised, every request is
\* answered with the bootstrap page
handle_https_request_implicit_no_route(c, expected_state) ==
    IF ~c.rd THEN HandlerErr("Failed to read request line")
    ELSE IF ~c.wr THEN HandlerErr("Failed to send HTML response")
    ELSE HandlerNone

handle_https_request_implicit(c, expected_state) ==
    IF ~c.rd THEN HandlerErr("Failed to read request line")
    ELSE IF StartsWithPostToken(c) THEN
        IF ~c.hdr THEN HandlerErr("Failed to read header")
        ELSE IF c.clen = "long" THEN HandlerErr("Failed to read request body")
        ELSE IF ~c.utf8 THEN HandlerErr("Invalid UTF-8 in body")
        ELSE IF c.clen # "exact" \/ ~DecodesAsTokenResponse(c.json)
            THEN HandlerErr("Failed to parse token response")
        ELSE IF ~c.wr THEN HandlerErr("Failed to send success response")
        ELSE HandlerSome(c.json.access_token[1], c.json.token_type[1])
    ELSE IF ~c.wr THEN HandlerErr("Failed to send HTML response")
    ELSE HandlerNone

\* ------------------------------------------------- request handler, code flow
\* a request as handle_https_request sees it: whether the request line is
\* read, whether it has two parts, the query after the first '?' (<<>> when
\* the path has none) as its key=value pairs, whether the peer takes the
\* response, and the `state` the listener expects
NoCallback == [rd |-> FALSE, parts |-> FALSE, query |-> <<>>, wr |-> FALSE, expected |-> ""]

\* keys and raw values of the pairs of a query; "%FF" is a value that
\* urlencoding::decode rejects
QueryKeys == {"code", "state", "error"}
QueryValues == {"n1", "x", "%FF"}
QueryPairs == {[k |-> k, v |-> v] : k \in QueryKeys, v \in QueryValues}
Queries == UNION {[1..n -> QueryPairs] : n \in 0..MaxQueryLen}

\* urlencoding::decode(value).unwrap_or_default()
Decode(v) == IF v = "%FF" THEN "" ELSE v

\* params.get(key).cloned() after the inserts of parse_query_params: the
\* last pair of a key wins
QueryParam(q, key) ==
    LET idx == {i \in 1..Len(q) : q[i].k = key} IN
    IF idx = {} THEN <<>>
    ELSE <<Decode(q[CHOOSE i \in idx : \A j \in idx : j <= i].v)>>
parse_query_params(q) ==
    [code |-> QueryParam(q, "code"), state |-> QueryParam(q, "state"),
     error |-> QueryParam(q, "error")]

\* Result<Option<TokenResponse>> of a request handler, with the text an
\* error carries and whether the token exchange was entered
CbSome(at) == [tag |-> "some", access_token |-> at, err |-> "", detail |-> "", exchanged |-> TRUE]
CbNone == [tag |-> "none", access_token |-> "", err |-> "", detail |-> "", exchanged |-> FALSE]
CbErr(e, d) == [tag |-> "err", access_token |-> "", err |-> e, detail |-> d, exchanged |-> FALSE]

\* exchange_code_for_token, by what the token endpoint does
ExchangeOutcomes == {"ok", "send", "status", "parse"}
exchange_code_for_token(outcome) ==
    IF outcome = "ok" THEN CbSome("T1")
    ELSE [CbErr(CASE outcome = "send" -> "Failed to send token request"
                  [] outcome = "status" -> "Token exchange failed"
                  [] OTHER -> "Failed to parse token response", "")
            EXCEPT !.exchanged = TRUE]

\* variant: the check of the code is missing
handle_https_request_no_code_check(req, expected_state, outcome) ==
    IF ~req.rd THEN CbErr("Failed to read request line", "")
    ELSE IF ~req.parts THEN CbErr("Invalid HTTP request", "")
    ELSE IF req.query = <<>> THEN CbNone
    ELSE
        LET params == parse_query_params(req.query[1]) IN
        IF ~req.wr THEN CbErr("Failed to write response", "")
        ELSE IF params.error # <<>> THEN CbErr("OAuth error", params.error[1])
        ELSE IF params.state = <<>> THEN CbErr("No state parameter received", "")
        ELSE IF params.state[1] # expected_state THEN CbErr("State mismatch", params.state[1])
        ELSE exchange_code_for_token(outcome)

\* handle_https_request: the request line, the query, the response page,
\* then the checks on error, code and state in the order of the code
handle_https_request(req, expected_state, outcome) ==
    IF ~req.rd THEN CbErr("Failed to read request line", "")
    ELSE IF ~req.parts THEN CbErr("Invalid HTTP request", "")
    ELSE IF req.query = <<>> THEN CbNone
    ELSE
        LET params == parse_query_params(req.query[1]) IN
        IF ~req.wr THEN CbErr("Failed to write response", "")
        ELSE IF params.error # <<>> THEN CbErr("OAuth error", params.error[1])
        ELSE IF params.code = <<>> THEN CbErr("No authorization code received", "")
        ELSE IF params.state = <<>> THEN CbErr("No state parameter received", "")
        ELSE IF params.state[1] # expected_state THEN CbErr("State mismatch", params.state[1])
        ELSE exchange_code_for_token(outcome)

\* the requests handle_https_request is studied on
CallbackRequests ==
    {[NoCallback EXCEPT !.expected = "n1"],
     [NoCallback EXCEPT !.expected = "n1", !.rd = TRUE],
     [NoCallback EXCEPT !.expected = "n1", !.rd = TRUE, !.parts = TRUE, !.wr = TRUE]}
        \cup {[rd |-> TRUE, parts |-> TRUE, query |-> <<q>>, wr |-> w, expected |-> "n1"] :
                q \in Queries, w \in BOOLEAN}

\* the result of handle_https_request_implicit in the shape of cb_result
ImplicitResult(r) ==
    IF r.tag = "some" THEN CbSome(r.access_token)
    ELSE IF r.tag = "none" THEN CbNone
    ELSE CbErr(r.err, "")

\* the calling task is at an await point (or outside authenticate())
MainSuspended == apc \in {"idle", "await", "done"}

OAuthInit ==
    /\ attempt = 0
    /\ apc = "idle"
    /\ nonce = NoState
    /\ authResult = <<>>
    /\ chan = [a \in Attempts |-> NoChannel]
    /\ lpc = "none"
    /\ latt = 0
    /\ lstate = NoState
    /\ conn = NoConn
    /\ ports = {}
    /\ accepted = 0
    /\ sends = [a \in Attempts |-> 0]
    /\ binds = [a \in Attempts |-> 0]
    /\ spawned = [a \in Attempts |-> FALSE]
    /\ opened = [a \in Attempts |-> 0]
    /\ deliveredBy = [a \in Attempts |-> <<>>]
    /\ auth_url = [a \in Attempts |-> NoState]
    /\ cb_request = NoCallback
    /\ cb_result = <<>>

\* variant: the browser is opened before the callback server is started
authenticate_opens_browser_first ==
    /\ apc \in {"idle", "done"}
    /\ attempt < MaxAttempts
    /\ attempt' = attempt + 1
    /\ nonce' = attempt + 1
    /\ chan' = [chan EXCEPT ![attempt + 1] = NewChannel]
    /\ authResult' = <<>>
    /\ apc' = "browser"
    /\ UNCHANGED <<lpc, latt, lstate, conn, ports, accepted, sends, binds, spawned,
                   opened, deliveredBy>>
    /\ UNCHANGED <<auth_url, codeflowVars>>
    /\ UNCHANGED pageVars
    /\ UNCHANGED pollVars

\* authenticate(), up to the call of start_callback_server_implicit
authenticate ==
    /\ apc \in {"idle", "done"}
    /\ attempt < MaxAttempts
    /\ attempt' = attempt + 1
    /\ nonce' = attempt + 1
    /\ chan' = [chan EXCEPT ![attempt + 1] = NewChannel]
    /\ authResult' = <<>>
    /\ apc' = "start"
    /\ UNCHANGED <<lpc, latt, lstate, conn, ports, accepted, sends, binds, spawned,
                   opened, deliveredBy>>
    /\ UNCHANGED <<auth_url, codeflowVars>>
    /\ UNCHANGED pageVars
    /\ UNCHANGED pollVars

\* variant: the bind error is not propagated with `?`, authenticate() goes on
\* to open the browser without a listener
start_callback_server_implicit_ignores_bind(certOk, extBusy) ==
    /\ apc = "start"
    /\ IF ~certOk THEN
            /\ authResult' = <<AuthErr("Failed to create TLS config")>>
            /\ chan' = [chan EXCEPT ![attempt] = NoChannel]
            /\ apc' = "done"
            /\ UNCHANGED <<binds, ports, lpc, latt, lstate, spawned>>
       ELSE IF REDIRECT_PORT \in ports \/ extBusy THEN
            /\ binds' = [binds EXCEPT ![attempt] = @ + 1]
            /\ chan' = [chan EXCEPT ![attempt] = DropSender(@)]
            /\ apc' = "browser"
            /\ UNCHANGED <<authResult, ports, lpc, latt, lstate, spawned>>
       ELSE
            /\ binds' = [binds EXCEPT ![attempt] = @ + 1]
            /\ ports' = ports \cup {REDIRECT_PORT}
            /\ lpc' = "accept"
            /\ latt' = attempt
            /\ lstate' = nonce
            /\ spawned' = [spawned EXCEPT ![attempt] = TRUE]
            /\ apc' = "browser"
            /\ UNCHANGED <<authResult, chan>>
    /\ UNCHANGED <<attempt, nonce, conn, accepted, sends, opened, deliveredBy>>
    /\ UNCHANGED <<auth_url, codeflowVars>>
    /\ UNCHANGED pageVars
    /\ UNCHANGED pollVars

\* start_callback_server_implicit: certificate, bind, spawn.  certOk is the
\* outcome of generate_self_signed_cert, extBusy tells whether another
\* process holds the port.  An early return drops the sender (moved into the
\* call) and, back in authenticate(), the receiver.
start_callback_server_implicit(certOk, extBusy) ==
    /\ apc = "start"
    /\ IF ~certOk THEN
            /\ authResult' = <<AuthErr("Failed to create TLS config")>>
            /\ chan' = [chan EXCEPT ![attempt] = NoChannel]
            /\ apc' = "done"
            /\ UNCHANGED <<binds, ports, lpc, latt, lstate, spawned>>
       ELSE IF REDIRECT_PORT \in ports \/ extBusy THEN
            /\ binds' = [binds EXCEPT ![attempt] = @ + 1]
            /\ authResult' = <<AuthErr("Failed to bind to port")>>
            /\ chan' = [chan EXCEPT ![attempt] = NoChannel]
            /\ apc' = "done"
            /\ UNCHANGED <<ports, lpc, latt, lstate, spawned>>
       ELSE
            /\ binds' = [binds EXCEPT ![attempt] = @ + 1]
            /\ ports' = ports \cup {REDIRECT_PORT}
            /\ lpc' = "accept"
            /\ latt' = attempt
            /\ lstate' = nonce
            /\ spawned' = [spawned EXCEPT ![attempt] = TRUE]
            /\ apc' = "browser"
            /\ UNCHANGED <<authResult, chan>>
    /\ UNCHANGED <<attempt, nonce, conn, accepted, sends, opened, deliveredBy>>
    /\ UNCHANGED <<auth_url, codeflowVars>>
    /\ UNCHANGED pageVars
    /\ UNCHANGED pollVars

\* webbrowser::open(&auth_url)?, auth_url being get_auth_url(&state)
open_browser(ok) ==
    /\ apc = "browser"
    /\ opened' = [opened EXCEPT ![attempt] = @ + 1]
    /\ IF ok THEN
            /\ apc' = "await"
            /\ UNCHANGED <<authResult, chan>>
       ELSE
            /\ authResult' = <<AuthErr("Failed to open browser")>>
            /\ chan' = [chan EXCEPT ![attempt].rx = FALSE]
            /\ apc' = "done"
    /\ UNCHANGED <<attempt, nonce, lpc, latt, lstate, conn, ports, accepted, sends,
                   binds, spawned, deliveredBy>>
    /\ auth_url' = [auth_url EXCEPT ![attempt] = nonce]
    /\ UNCHANGED codeflowVars
    /\ UNCHANGED pageVars
    /\ UNCHANGED pollVars

\* variant: the wait only ends when a value arrives, a closed channel is not
\* noticed
receive_ignores_close ==
    /\ apc = "await"
    /\ chan[attempt].val # <<>>
    /\ authResult' = <<chan[attempt].val[1]>>
    /\ chan' = [chan EXCEPT ![attempt].rx = FALSE]
    /\ apc' = "done"
    /\ UNCHANGED <<attempt, nonce, lpc, latt, lstate, conn, ports, accepted, sends,
                   binds, spawned, opened, deliveredBy>>
    /\ UNCHANGED <<auth_url, codeflowVars>>
    /\ UNCHANGED pageVars
    /\ UNCHANGED pollVars

\* variant: the wait gives up while the listener still holds the sender
receive_times_out ==
    /\ apc = "await"
    /\ \/ /\ chan[attempt].val # <<>>
          /\ authResult' = <<chan[attempt].val[1]>>
       \/ /\ chan[attempt].val = <<>>
          /\ authResult' = <<AuthErr("Failed to receive OAuth callback")>>
    /\ chan' = [chan EXCEPT ![attempt].rx = FALSE]
    /\ apc' = "done"
    /\ UNCHANGED <<attempt, nonce, lpc, latt, lstate, conn, ports, accepted, sends,
                   binds, spawned, opened, deliveredBy>>
    /\ UNCHANGED <<auth_url, codeflowVars>>
    /\ UNCHANGED pageVars
    /\ UNCHANGED pollVars

\* receiver.await.context("Failed to receive OAuth callback")?
receive ==
    /\ apc = "await"
    /\ \/ /\ chan[attempt].val # <<>>
          /\ authResult' = <<chan[attempt].val[1]>>
       \/ /\ chan[attempt].val = <<>>
          /\ ~chan[attempt].tx
          /\ authResult' = <<AuthErr("Failed to receive OAuth callback")>>
    /\ chan' = [chan EXCEPT ![attempt].rx = FALSE]
    /\ apc' = "done"
    /\ UNCHANGED <<attempt, nonce, lpc, latt, lstate, conn, ports, accepted, sends,
                   binds, spawned, opened, deliveredBy>>
    /\ UNCHANGED <<auth_url, codeflowVars>>
    /\ UNCHANGED pageVars
    /\ UNCHANGED pollVars

\* ------------------------------------------------------------ listener task
\* listener.accept().await yields a connection
accept(c) ==
    /\ MainSuspended
    /\ lpc = "accept"
    /\ accepted < MaxConns
    /\ conn' = c
    /\ accepted' = accepted + 1
    /\ lpc' = "handshake"
    /\ UNCHANGED <<attempt, apc, nonce, authResult, chan, latt, lstate, ports, sends,
                   binds, spawned, opened, deliveredBy>>
    /\ UNCHANGED <<auth_url, codeflowVars>>
    /\ UNCHANGED pageVars
    /\ UNCHANGED pollVars

\* listener.accept().await yields Err: `while let Ok(..)` ends, the task
\* finishes and drops the listener and the unused sender
accept_error ==
    /\ MainSuspended
    /\ lpc = "accept"
    /\ lpc' = "exited"
    /\ ports' = ports \ {REDIRECT_PORT}
    /\ chan' = [chan EXCEPT ![latt] = DropSender(@)]
    /\ UNCHANGED <<attempt, apc, nonce, authResult, latt, lstate, conn, accepted, sends,
                   binds, spawned, opened, deliveredBy>>
    /\ UNCHANGED <<auth_url, codeflowVars>>
    /\ UNCHANGED pageVars
    /\ UNCHANGED pollVars

\* variant: a failed handshake is treated like a failed request, it is sent
\* on the channel and ends the task
tls_accept_fatal ==
    /\ MainSuspended
    /\ lpc = "handshake"
    /\ conn.stall # "handshake"
    /\ IF conn.tls THEN
            /\ lpc' = "handle"
            /\ conn' = conn
            /\ UNCHANGED <<chan, sends, ports>>
       ELSE
            /\ chan' = [chan EXCEPT ![latt] = Send(@, AuthErr("TLS handshake failed"))]
            /\ sends' = [sends EXCEPT ![latt] = @ + 1]
            /\ ports' = ports \ {REDIRECT_PORT}
            /\ lpc' = "exited"
            /\ conn' = NoConn
    /\ UNCHANGED <<attempt, apc, nonce, authResult, latt, lstate, accepted,
                   binds, spawned, opened, deliveredBy>>
    /\ UNCHANGED <<auth_url, codeflowVars>>
    /\ UNCHANGED pageVars
    /\ UNCHANGED pollVars

\* variant: a handshake that does not complete is given up and the loop
\* accepts the next connection
tls_accept_gives_up ==
    /\ MainSuspended
    /\ lpc = "handshake"
    /\ IF conn.tls /\ conn.stall # "handshake" THEN lpc' = "handle" /\ conn' = conn
       ELSE lpc' = "accept" /\ conn' = NoConn
    /\ UNCHANGED <<attempt, apc, nonce, authResult, chan, latt, lstate, ports, accepted,
                   sends, binds, spawned, opened, deliveredBy>>
    /\ UNCHANGED <<auth_url, codeflowVars>>
    /\ UNCHANGED pageVars
    /\ UNCHANGED pollVars

\* acceptor.accept(stream).await completes
tls_accept ==
    /\ MainSuspended
    /\ lpc = "handshake"
    /\ conn.stall # "handshake"
    /\ IF conn.tls THEN lpc' = "handle" /\ conn' = conn
       ELSE lpc' = "accept" /\ conn' = NoConn
    /\ UNCHANGED <<attempt, apc, nonce, authResult, chan, latt, lstate, ports, accepted,
                   sends, binds, spawned, opened, deliveredBy>>
    /\ UNCHANGED <<auth_url, codeflowVars>>
    /\ UNCHANGED pageVars
    /\ UNCHANGED pollVars

\* variant: the Err arm reports the error but has no `return`, the loop goes
\* on accepting
handle_connection_keeps_listening ==
    /\ MainSuspended
    /\ lpc = "handle"
    /\ conn.stall # "request"
    /\ LET r == handle_https_request_implicit(conn, lstate) IN
       IF r.tag = "none" THEN
            /\ lpc' = "accept"
            /\ UNCHANGED <<chan, sends, ports, deliveredBy>>
       ELSE IF r.tag = "err" THEN
            /\ chan' = [chan EXCEPT ![latt] = Send(@, AuthErr(r.err))]
            /\ sends' = [sends EXCEPT ![latt] = @ + 1]
            /\ lpc' = "accept"
            /\ UNCHANGED <<ports, deliveredBy>>
       ELSE
            /\ chan' = [chan EXCEPT ![latt] = Send(@, OkToken(r.access_token, r.token_type))]
            /\ sends' = [sends EXCEPT ![latt] = @ + 1]
            /\ deliveredBy' = [deliveredBy EXCEPT ![latt] = <<conn>>]
            /\ ports' = ports \ {REDIRECT_PORT}
            /\ lpc' = "exited"
    /\ conn' = NoConn
    /\ UNCHANGED <<attempt, apc, nonce, authResult, latt, lstate, accepted, binds,
                   spawned, opened>>
    /\ UNCHANGED <<auth_url, codeflowVars>>
    /\ UNCHANGED pageVars
    /\ UNCHANGED pollVars

\* the match on handle_https_request_implicit(tls_stream, &state).await
handle_connection ==
    /\ MainSuspended
    /\ lpc = "handle"
    /\ conn.stall # "request"
    /\ LET r == handle_https_request_implicit(conn, lstate) IN
       IF r.tag = "none" THEN
            /\ lpc' = "accept"
            /\ UNCHANGED <<chan, sends, ports, deliveredBy>>
       ELSE
            /\ chan' = [chan EXCEPT ![latt] =
                    Send(@, IF r.tag = "some" THEN OkToken(r.access_token, r.token_type)
                            ELSE AuthErr(r.err))]
            /\ sends' = [sends EXCEPT ![latt] = @ + 1]
            /\ deliveredBy' = IF r.tag = "some" THEN [deliveredBy EXCEPT ![latt] = <<conn>>]
                              ELSE deliveredBy
            /\ ports' = ports \ {REDIRECT_PORT}
            /\ lpc' = "exited"
    /\ conn' = NoConn
    /\ UNCHANGED <<attempt, apc, nonce, authResult, latt, lstate, accepted, binds,
                   spawned, opened>>
    /\ UNCHANGED <<auth_url, codeflowVars>>
    /\ UNCHANGED pageVars
    /\ UNCHANGED pollVars

\* ------------------------------------------------------- API client: paging
StatusOK == 200
StatusUnauthorized == 401
StatusTooManyRequests == 429
StatusServerError == 500
StatusNoContent == 204

\* Result<Vec<FollowedChannel>>
\* `err` is the error raised, `ctx` the contexts added on the way up
\* (outermost first); `status` and `body` are what a status failure carries
ApiOk(d) == [ok |-> TRUE, data |-> d, err |-> "", ctx |-> <<>>, status |-> 0, body |-> ""]
ApiErr(e) == [ok |-> FALSE, data |-> <<>>, err |-> e, ctx |-> <<>>, status |-> 0, body |-> ""]
\* anyhow!("API request failed ({}): {}", status, error_text)
ApiRemote(st, b) ==
    [ok |-> FALSE, data |-> <<>>, err |-> "API request failed", ctx |-> <<>>, status |-> st, body |-> b]
\* .context(c)? on a Result
Context(r, c) == IF r.ok THEN r ELSE [r EXCEPT !.ctx = <<c>> \o @]
\* e.to_string(): anyhow prints the outermost context only
Display(r) == IF r.ctx # <<>> THEN r.ctx[1] ELSE r.err

\* Option<String> of Pagination.cursor; <<>> is None
Cursors == {<<>>, <<"">>, <<"a">>, <<"b">>}

\* what the provider answers to one request: whether the request went
\* through, the HTTP status, whether the body decodes as TwitchResponse, and
\* the envelope's `pagination: Option<Pagination>` with its `cursor`
OkPage(pg, c) ==
    [sent |-> TRUE, status |-> StatusOK, decodes |-> TRUE, pagination |-> pg, cursor |-> c, body |-> ""]
OkPages == {OkPage(FALSE, <<>>)} \cup {OkPage(TRUE, c) : c \in Cursors}
FailedPages ==
    {[OkPage(FALSE, <<>>) EXCEPT !.sent = FALSE], [OkPage(FALSE, <<>>) EXCEPT !.decodes = FALSE],
     [OkPage(FALSE, <<>>) EXCEPT !.status = StatusServerError, !.body = "Unauthorized"]}
        \cup {[OkPage(FALSE, <<>>) EXCEPT !.status = st] :
                st \in {StatusUnauthorized, StatusTooManyRequests, StatusServerError, StatusNoContent}}
Pages == OkPages \cup FailedPages
Sources == UNION {[1..n -> Pages] : n \in 1..MaxPages}

\* the n-th request is answered with the n-th page of the source; a source
\* that is exhausted keeps answering with its last page
Response(n) == pages[IF n <= Len(pages) THEN n ELSE Len(pages)]
\* the items of the page that answers the n-th request
Data(n) == <<n>>

\* variant: no arm for TOO_MANY_REQUESTS, a 429 falls into the catch-all arm
make_api_request_no_429_arm(token, rsp) ==
    IF token = <<>> THEN ApiErr("No access token available for API request")
    ELSE IF ~rsp.sent THEN ApiErr("Failed to make API request")
    ELSE IF rsp.status = StatusOK THEN ApiOk(<<>>)
    ELSE IF rsp.status = StatusUnauthorized
        THEN ApiErr("Authentication failed - token may be expired")
    ELSE ApiRemote(rsp.status, rsp.body)

\* make_api_request: the precondition on the token, then the classification
\* of the status of the response
make_api_request(token, rsp) ==
    IF token = <<>> THEN ApiErr("No access token available for API request")
    ELSE IF ~rsp.sent THEN ApiErr("Failed to make API request")
    ELSE IF rsp.status = StatusOK THEN ApiOk(<<>>)
    ELSE IF rsp.status = StatusUnauthorized
        THEN ApiErr("Authentication failed - token may be expired")
    ELSE IF rsp.status = StatusTooManyRequests THEN ApiErr("Rate limit exceeded")
    ELSE ApiRemote(rsp.status, rsp.body)

\* variant: the request is sent before the token is looked at
NetworkRequests_before_token_check(token, endpoint, after, ids) ==
    <<[endpoint |-> endpoint, after |-> after, ids |-> ids]>>

\* the request make_api_request puts on the network: none without a token
NetworkRequests(token, endpoint, after, ids) ==
    IF token = <<>> THEN <<>> ELSE <<[endpoint |-> endpoint, after |-> after, ids |-> ids]>>

\* channels_response.pagination.and_then(|p| p.cursor)
PaginationCursor(rsp) == IF rsp.pagination THEN rsp.cursor ELSE <<>>

\* the ids a stream of a response may carry
StreamIdSet == {"s1", "s2"}
\* the limits of SettingsWindow::validate
MaxRefreshInterval == 60
MaxTimeoutMs == 30000
\* refresh_interval_minutes, timeout_ms and client_id of Config::default
DefaultSettings ==
    [refresh_interval_minutes |-> 2, timeout_ms |-> 5000, client_id |-> "pdnu3rmmjndvi58vd5f19l5rxqvu6c"]

\* import_settings not called
NoImport == [read |-> FALSE, parse |-> FALSE, access_token |-> <<>>, settings |-> DefaultSettings]

\* no call of TwitchClient::authenticate yet
NoAuthCall == [state |-> "none", client |-> <<>>, config |-> <<>>]
\* the indicator before TwitchIndicator::new
NoResponse == [page |-> OkPage(FALSE, <<>>), data |-> <<>>]
PollIdle ==
    /\ ipc = "none"
    /\ config_token = <<>>
    /\ authenticated_user = <<>>
    /\ current_streams = <<>>
    /\ shown_streams = {}
    /\ notify_enabled = FALSE
    /\ notified = 0
    /\ resp = NoResponse
    /\ inflight = 0
    /\ ticks = 0
    /\ api_requests = 0
    /\ reauths = 0
    /\ file_token = <<>>
    /\ auth_call = NoAuthCall
    /\ spc = "none"
    /\ settings_token = <<>>
    /\ settings_client_id = ""
    /\ failed = {}
    /\ notify_count = [s \in StreamIdSet |-> 0]
    /\ tray_streams = <<>>
    /\ tray_pc = "none"
    /\ config_settings = DefaultSettings
    /\ file_settings = DefaultSettings
    /\ import_file = NoImport

\* the id lists of the bulk operations
IdLists == {<<>>, <<"u1">>, <<"u1", "u2">>}
NoCall == [op |-> "", ids |-> <<>>]

PageIdle ==
    /\ pages = <<>>
    /\ access_token = <<>>
    /\ gpc = "idle"
    /\ cursor = <<>>
    /\ all_channels = <<>>
    /\ requests = <<>>
    /\ gResult = <<>>
    /\ call = NoCall
    /\ PollIdle

PageInit ==
    /\ OAuthInit
    /\ pages \in Sources
    /\ access_token \in {<<>>, <<"T1">>}
    /\ gpc = "idle"
    /\ cursor = <<>>
    /\ all_channels = <<>>
    /\ requests = <<>>
    /\ gResult = <<>>
    /\ call = NoCall
    /\ PollIdle

\* get_followed_channels, entry: the locals before the loop
get_followed_channels ==
    /\ gpc = "idle"
    /\ all_channels' = <<>>
    /\ cursor' = <<>>
    /\ gpc' = "loop"
    /\ call' = [op |-> "get_followed_channels", ids |-> <<>>]
    /\ UNCHANGED <<pages, access_token, requests, gResult>>
    /\ UNCHANGED oauthVars
    /\ UNCHANGED pollVars

\* variant: the cursor is never pushed as `after`
get_followed_channels_page_no_after ==
    /\ gpc = "loop"
    /\ Len(requests) < MaxRequests
    /\ LET n == Len(requests) + 1
           rsp == Response(n)
           r == make_api_request(access_token, rsp)
       IN
       IF access_token = <<>> THEN
            /\ gResult' = <<Context(r, "Failed to get followed channels")>>
            /\ gpc' = "done"
            /\ UNCHANGED <<requests, all_channels, cursor>>
       ELSE
            /\ requests' = requests \o NetworkRequests(access_token, "channels/followed", <<>>, <<>>)
            /\ IF ~r.ok THEN
                    /\ gResult' = <<Context(r, "Failed to get followed channels")>>
                    /\ gpc' = "done"
                    /\ UNCHANGED <<all_channels, cursor>>
               ELSE IF ~rsp.decodes THEN
                    /\ gResult' = <<ApiErr("Failed to parse followed channels response")>>
                    /\ gpc' = "done"
                    /\ UNCHANGED <<all_channels, cursor>>
               ELSE
                    /\ all_channels' = all_channels \o Data(n)
                    /\ cursor' = PaginationCursor(rsp)
                    /\ IF PaginationCursor(rsp) = <<>>
                       THEN gResult' = <<ApiOk(all_channels \o Data(n))>> /\ gpc' = "done"
                       ELSE gResult' = gResult /\ gpc' = "loop"
    /\ UNCHANGED <<pages, access_token, call>>
    /\ UNCHANGED oauthVars
    /\ UNCHANGED pollVars

\* variant: a failed request is tried again instead of ending the call
get_followed_channels_page_retries ==
    /\ gpc = "loop"
    /\ Len(requests) < MaxRequests
    /\ LET n == Len(requests) + 1
           rsp == Response(n)
           r == make_api_request(access_token, rsp)
       IN
       IF access_token = <<>> THEN
            /\ gResult' = <<Context(r, "Failed to get followed channels")>>
            /\ gpc' = "done"
            /\ UNCHANGED <<requests, all_channels, cursor>>
       ELSE
            /\ requests' = requests \o NetworkRequests(access_token, "channels/followed", cursor, <<>>)
            /\ IF ~r.ok \/ ~rsp.decodes THEN
                    /\ gpc' = "loop"
                    /\ UNCHANGED <<gResult, all_channels, cursor>>
               ELSE
                    /\ all_channels' = all_channels \o Data(n)
                    /\ cursor' = PaginationCursor(rsp)
                    /\ IF PaginationCursor(rsp) = <<>>
                       THEN gResult' = <<ApiOk(all_channels \o Data(n))>> /\ gpc' = "done"
                       ELSE gResult' = gResult /\ gpc' = "loop"
    /\ UNCHANGED <<pages, access_token, call>>
    /\ UNCHANGED oauthVars
    /\ UNCHANGED pollVars

\* variant: the loop gives up after two pages
get_followed_channels_page_capped ==
    /\ gpc = "loop"
    /\ Len(requests) < MaxRequests
    /\ LET n == Len(requests) + 1
           rsp == Response(n)
           r == make_api_request(access_token, rsp)
       IN
       IF access_token = <<>> THEN
            /\ gResult' = <<Context(r, "Failed to get followed channels")>>
            /\ gpc' = "done"
            /\ UNCHANGED <<requests, all_channels, cursor>>
       ELSE
            /\ requests' = requests \o NetworkRequests(access_token, "channels/followed", cursor, <<>>)
            /\ IF ~r.ok THEN
                    /\ gResult' = <<Context(r, "Failed to get followed channels")>>
                    /\ gpc' = "done"
                    /\ UNCHANGED <<all_channels, cursor>>
               ELSE IF ~rsp.decodes THEN
                    /\ gResult' = <<ApiErr("Failed to parse followed channels response")>>
                    /\ gpc' = "done"
                    /\ UNCHANGED <<all_channels, cursor>>
               ELSE
                    /\ all_channels' = all_channels \o Data(n)
                    /\ cursor' = PaginationCursor(rsp)
                    /\ IF PaginationCursor(rsp) = <<>> \/ n >= 2
                       THEN gResult' = <<ApiOk(all_channels \o Data(n))>> /\ gpc' = "done"
                       ELSE gResult' = gResult /\ gpc' = "loop"
    /\ UNCHANGED <<pages, access_token, call>>
    /\ UNCHANGED oauthVars
    /\ UNCHANGED pollVars

\* one iteration of the loop: the request with `after` pushed when the
\* cursor is Some, the decoding, the extend, the new cursor and the break
get_followed_channels_page ==
    /\ gpc = "loop"
    /\ Len(requests) < MaxRequests
    /\ LET n == Len(requests) + 1
           rsp == Response(n)
           r == make_api_request(access_token, rsp)
       IN
       IF access_token = <<>> THEN
            /\ gResult' = <<Context(r, "Failed to get followed channels")>>
            /\ gpc' = "done"
            /\ UNCHANGED <<requests, all_channels, cursor>>
       ELSE
            /\ requests' = requests \o NetworkRequests(access_token, "channels/followed", cursor, <<>>)
            /\ IF ~r.ok THEN
                    /\ gResult' = <<Context(r, "Failed to get followed channels")>>
                    /\ gpc' = "done"
                    /\ UNCHANGED <<all_channels, cursor>>
               ELSE IF ~rsp.decodes THEN
                    /\ gResult' = <<ApiErr("Failed to parse followed channels response")>>
                    /\ gpc' = "done"
                    /\ UNCHANGED <<all_channels, cursor>>
               ELSE
                    /\ all_channels' = all_channels \o Data(n)
                    /\ cursor' = PaginationCursor(rsp)
                    /\ IF PaginationCursor(rsp) = <<>>
                       THEN gResult' = <<ApiOk(all_channels \o Data(n))>> /\ gpc' = "done"
                       ELSE gResult' = gResult /\ gpc' = "loop"
    /\ UNCHANGED <<pages, access_token, call>>
    /\ UNCHANGED oauthVars
    /\ UNCHANGED pollVars

\* ---------------------------------------- API client: one-request operations
\* each yields its result and the requests it put on the network, given the
\* response `rsp` of the provider and the items `data` of its body
get_user(token, rsp, data) ==
    LET r == make_api_request(token, rsp) IN
    [res |-> IF ~r.ok THEN Context(r, "Failed to get user info")
             ELSE IF ~rsp.decodes THEN ApiErr("Failed to parse user response")
             ELSE IF data = <<>> THEN ApiErr("No user data returned")
             ELSE ApiOk(<<data[1]>>),
     reqs |-> NetworkRequests(token, "users", <<>>, <<>>)]

get_followed_streams(token, rsp, data) ==
    LET r == make_api_request(token, rsp) IN
    [res |-> IF ~r.ok THEN Context(r, "Failed to get followed streams")
             ELSE IF ~rsp.decodes THEN ApiErr("Failed to parse followed streams response")
             ELSE ApiOk(data),
     reqs |-> NetworkRequests(token, "streams/followed", <<>>, <<>>)]

\* variant: the is_empty() early return is missing
get_streams_by_user_ids_no_short_circuit(token, user_ids, rsp, data) ==
    LET r == make_api_request(token, rsp) IN
    [res |-> IF ~r.ok THEN Context(r, "Failed to get streams by user IDs")
             ELSE IF ~rsp.decodes THEN ApiErr("Failed to parse streams response")
             ELSE ApiOk(data),
     reqs |-> NetworkRequests(token, "streams", <<>>, user_ids)]

get_streams_by_user_ids(token, user_ids, rsp, data) ==
    IF user_ids = <<>> THEN [res |-> ApiOk(<<>>), reqs |-> <<>>]
    ELSE
        LET r == make_api_request(token, rsp) IN
        [res |-> IF ~r.ok THEN Context(r, "Failed to get streams by user IDs")
                 ELSE IF ~rsp.decodes THEN ApiErr("Failed to parse streams response")
                 ELSE ApiOk(data),
         reqs |-> NetworkRequests(token, "streams", <<>>, user_ids)]

get_users_by_ids(token, user_ids, rsp, data) ==
    IF user_ids = <<>> THEN [res |-> ApiOk(<<>>), reqs |-> <<>>]
    ELSE
        LET r == make_api_request(token, rsp) IN
        [res |-> IF ~r.ok THEN Context(r, "Failed to get users by IDs")
                 ELSE IF ~rsp.decodes THEN ApiErr("Failed to parse users response")
                 ELSE ApiOk(data),
         reqs |-> NetworkRequests(token, "users", <<>>, user_ids)]

BulkOps == {"get_streams_by_user_ids", "get_users_by_ids"}
SingleOps == {"get_user", "get_followed_streams"} \cup BulkOps

\* a call of one of the one-request operations on the client
api_call(op, ids) ==
    /\ gpc = "idle"
    /\ op \in SingleOps
    /\ op \notin BulkOps => ids = <<>>
    /\ LET rsp == Response(1)
           out == CASE op = "get_user" -> get_user(access_token, rsp, Data(1))
                    [] op = "get_followed_streams" -> get_followed_streams(access_token, rsp, Data(1))
                    [] op = "get_streams_by_user_ids" ->
                            get_streams_by_user_ids(access_token, ids, rsp, Data(1))
                    [] OTHER -> get_users_by_ids(access_token, ids, rsp, Data(1))
       IN
       /\ requests' = requests \o out.reqs
       /\ gResult' = <<out.res>>
    /\ call' = [op |-> op, ids |-> ids]
    /\ gpc' = "done"
    /\ UNCHANGED <<pages, access_token, cursor, all_channels>>
    /\ UNCHANGED oauthVars
    /\ UNCHANGED pollVars

\* response.status().is_success()
IsSuccess(st) == st \in 200..299

\* validate_token: Result<TokenValidation> given the token of the client and
\* what the validate endpoint answers
validate_token(token, rsp, data) ==
    IF token = <<>> THEN ApiErr("No access token available")
    ELSE IF ~rsp.sent THEN ApiErr("Failed to validate token")
    ELSE IF ~IsSuccess(rsp.status)
        THEN [ApiErr("Token validation failed") EXCEPT !.status = rsp.status]
    ELSE IF ~rsp.decodes THEN ApiErr("Failed to parse token validation response")
    ELSE ApiOk(data)

\* variant: a token that fails validation is dropped from the client
validate_token_call_clears_token ==
    /\ gpc \in {"idle", "validated"}
    /\ Len(gResult) < MaxValidations
    /\ gResult' = Append(gResult, validate_token(access_token, Response(1), Data(1)))
    /\ access_token' = IF validate_token(access_token, Response(1), Data(1)).ok
                       THEN access_token ELSE <<>>
    /\ call' = [op |-> "validate_token", ids |-> <<>>]
    /\ gpc' = "validated"
    /\ UNCHANGED <<pages, cursor, all_channels, requests>>
    /\ UNCHANGED oauthVars
    /\ UNCHANGED pollVars

\* a call of validate_token on the client; the endpoint answers every call
\* with the first page of the source
validate_token_call ==
    /\ gpc \in {"idle", "validated"}
    /\ Len(gResult) < MaxValidations
    /\ gResult' = Append(gResult, validate_token(access_token, Response(1), Data(1)))
    /\ call' = [op |-> "validate_token", ids |-> <<>>]
    /\ gpc' = "validated"
    /\ UNCHANGED <<pages, access_token, cursor, all_channels, requests>>
    /\ UNCHANGED oauthVars
    /\ UNCHANGED pollVars

PageNext ==
    \/ get_followed_channels
    \/ get_followed_channels_page

\* every typed read operation of the client, against short sources
CallInit ==
    /\ OAuthInit
    /\ pages \in UNION {[1..n -> Pages] : n \in 1..MaxCallPages}
    /\ access_token \in {<<>>, <<"T1">>}
    /\ gpc = "idle"
    /\ cursor = <<>>
    /\ all_channels = <<>>
    /\ requests = <<>>
    /\ gResult = <<>>
    /\ call = NoCall
    /\ PollIdle

CallNext ==
    \/ get_followed_channels
    \/ get_followed_channels_page
    \/ \E op \in SingleOps, ids \in IdLists : api_call(op, ids)
    \/ validate_token_call

CallSpec == CallInit /\ [][CallNext]_vars
\* the loop of get_followed_channels is not suspended forever: each request
\* is answered
FairCallSpec == CallSpec /\ WF_vars(get_followed_channels_page)

PageSpec == PageInit /\ [][PageNext]_vars

\* ------------------------------------------- indicator: run and the poll loop
\* Vec<Stream> of a streams/followed response, by stream id
StreamLists == {<<>>, <<"s1">>, <<"s2">>, <<"s1", "s2">>}
StreamIds(streams) == {streams[i] : i \in 1..Len(streams)}
\* what the provider may answer to the request of one poll cycle
PollResponses ==
    {[page |-> pg, data |-> d] : pg \in {OkPage(FALSE, <<>>), OkPage(TRUE, <<"a">>)}, d \in StreamLists}
        \cup {[page |-> pg, data |-> <<>>] : pg \in FailedPages}
\* what the provider may answer to the request of get_user
UserResponses ==
    {[page |-> OkPage(FALSE, <<>>), data |-> d] : d \in {<<>>, <<"u1">>}}
        \cup {[page |-> pg, data |-> <<>>] : pg \in FailedPages}
\* Result<TokenResponse> of OAuthFlow::authenticate, as the caller sees it
OAuthOutcomes == {OkToken("T1", "bearer"), AuthErr("Failed to receive OAuth callback")}

\* the positions of periodic_update_loop
Periodic == ipc \in {"tick", "update", "inflight", "sleep", "reauth", "reauth_user"}

PollInit ==
    /\ OAuthInit
    /\ pages = <<>>
    /\ gpc = "idle"
    /\ cursor = <<>>
    /\ all_channels = <<>>
    /\ requests = <<>>
    /\ gResult = <<>>
    /\ call = NoCall
    /\ config_token \in {<<>>, <<"T0">>}
    /\ access_token = config_token
    /\ notify_enabled \in BOOLEAN
    /\ ipc = "run"
    /\ authenticated_user = <<>>
    /\ current_streams = <<>>
    /\ shown_streams = {}
    /\ notified = 0
    /\ resp = NoResponse
    /\ inflight = 0
    /\ ticks = 0
    /\ api_requests = 0
    /\ reauths = 0
    /\ file_token = config_token
    /\ auth_call = NoAuthCall
    /\ spc = "none"
    /\ settings_token = <<>>
    /\ settings_client_id = ""
    /\ failed = {}
    /\ notify_count = [s \in StreamIdSet |-> 0]
    /\ tray_streams = <<>>
    /\ tray_pc = "none"
    /\ config_settings = DefaultSettings
    /\ file_settings = DefaultSettings
    /\ import_file = NoImport

\* run, entry: is_authenticated() chooses between authenticate and validate
run ==
    /\ ipc = "run"
    /\ ipc' = IF config_token = <<>> THEN "auth" ELSE "validate"
    /\ UNCHANGED <<config_token, authenticated_user, current_streams, shown_streams,
                   notify_enabled, notified, resp, inflight, ticks, api_requests, reauths>>
    /\ UNCHANGED <<access_token, apiLocals>>
    /\ UNCHANGED <<tokenVars, settingsVars>>
    /\ UNCHANGED <<notifyLog, trayVars, fileVars>>
    /\ UNCHANGED oauthVars

\* validate_and_refresh_token in run: a failure leads to authenticate
validate_and_refresh_token(valid) ==
    /\ ipc = "validate"
    /\ ipc' = IF access_token # <<>> /\ valid THEN "get_user" ELSE "auth"
    /\ UNCHANGED <<config_token, authenticated_user, current_streams, shown_streams,
                   notify_enabled, notified, resp, inflight, ticks, api_requests, reauths>>
    /\ UNCHANGED <<access_token, apiLocals>>
    /\ UNCHANGED <<tokenVars, settingsVars>>
    /\ UNCHANGED <<notifyLog, trayVars, fileVars>>
    /\ UNCHANGED oauthVars

\* variant: the new token is stored in the config only, the client keeps
\* the token it had
indicator_authenticate_config_only(outcome) ==
    /\ ipc \in {"auth", "reauth"}
    /\ outcome \in OAuthOutcomes
    /\ auth_call' = [state |-> IF outcome.ok THEN "saving" ELSE "err",
                     client |-> access_token, config |-> config_token]
    /\ IF outcome.ok
       THEN access_token' = access_token /\ config_token' = <<outcome.access_token>>
       ELSE UNCHANGED <<access_token, config_token>>
    /\ reauths' = IF ipc = "reauth" THEN reauths + 1 ELSE reauths
    /\ ipc' = IF outcome.ok
              THEN (IF ipc = "auth" THEN "auth_save" ELSE "reauth_save")
              ELSE (IF ipc = "auth" THEN "exit" ELSE "sleep")
    /\ UNCHANGED <<authenticated_user, current_streams, shown_streams,
                   notify_enabled, notified, resp, inflight, ticks, api_requests>>
    /\ UNCHANGED <<file_token, settingsVars>>
    /\ UNCHANGED apiLocals
    /\ UNCHANGED <<notifyLog, trayVars, fileVars>>
    /\ UNCHANGED oauthVars

\* TwitchIndicator::authenticate over TwitchClient::authenticate, up to the
\* await of save_default: the token of a successful flow is stored in the
\* client and in the shared config. In run a failure of the flow ends run;
\* in the loop it is logged.
indicator_authenticate(outcome) ==
    /\ ipc \in {"auth", "reauth"}
    /\ outcome \in OAuthOutcomes
    /\ auth_call' = [state |-> IF outcome.ok THEN "saving" ELSE "err",
                     client |-> access_token, config |-> config_token]
    /\ IF outcome.ok
       THEN access_token' = <<outcome.access_token>> /\ config_token' = <<outcome.access_token>>
       ELSE UNCHANGED <<access_token, config_token>>
    /\ reauths' = IF ipc = "reauth" THEN reauths + 1 ELSE reauths
    /\ ipc' = IF outcome.ok
              THEN (IF ipc = "auth" THEN "auth_save" ELSE "reauth_save")
              ELSE (IF ipc = "auth" THEN "exit" ELSE "sleep")
    /\ UNCHANGED <<authenticated_user, current_streams, shown_streams,
                   notify_enabled, notified, resp, inflight, ticks, api_requests>>
    /\ UNCHANGED <<file_token, settingsVars>>
    /\ UNCHANGED apiLocals
    /\ UNCHANGED <<notifyLog, trayVars, fileVars>>
    /\ UNCHANGED oauthVars

\* TwitchClient::authenticate from save_default on: the shared config is
\* written to config.toml; a failure is the error of authenticate
authenticate_save_default(saved) ==
    /\ ipc \in {"auth_save", "reauth_save"}
    /\ file_token' = IF saved THEN config_token ELSE file_token
    /\ file_settings' = IF saved THEN config_settings ELSE file_settings
    /\ auth_call' = [auth_call EXCEPT !.state = IF saved THEN "ok" ELSE "err"]
    /\ ipc' = IF saved
              THEN (IF ipc = "auth_save" THEN "get_user" ELSE "reauth_user")
              ELSE (IF ipc = "auth_save" THEN "exit" ELSE "sleep")
    /\ UNCHANGED <<config_token, authenticated_user, current_streams, shown_streams,
                   notify_enabled, notified, resp, inflight, ticks, api_requests, reauths>>
    /\ UNCHANGED settingsVars
    /\ UNCHANGED <<access_token, apiLocals>>
    /\ UNCHANGED <<notifyLog, trayVars, config_settings, import_file>>
    /\ UNCHANGED oauthVars

\* the tokens a settings file may carry
FileTokens == {<<>>, <<"T0">>, <<"T2">>}

\* the settings a file to import may carry, around the limits of validate
SettingsValues ==
    [refresh_interval_minutes : {0, 1, MaxRefreshInterval, MaxRefreshInterval + 1},
     timeout_ms : {MaxTimeoutMs, MaxTimeoutMs + 1},
     client_id : {"", "id"}]
\* a file given to --import-settings: whether it can be read, whether its
\* text parses as a Config, and what it then holds
ImportFiles ==
    [read : BOOLEAN, parse : BOOLEAN, access_token : FileTokens, settings : SettingsValues]

\* SettingsWindow::validate: the message of the first check that fails, or
\* "" when the settings pass
validate(settings) ==
    IF settings.refresh_interval_minutes = 0
        THEN "Refresh interval must be greater than 0"
    ELSE IF settings.refresh_interval_minutes > MaxRefreshInterval
        THEN "Refresh interval should not exceed 60 minutes"
    ELSE IF settings.timeout_ms > MaxTimeoutMs
        THEN "Notification timeout should not exceed 30 seconds (30000ms)"
    ELSE IF settings.client_id = ""
        THEN "Twitch Client ID cannot be empty"
    ELSE ""

\* variant: the imported settings are applied without validate
ImportError_unvalidated(file) ==
    IF ~file.read THEN "Failed to read settings"
    ELSE IF ~file.parse THEN "Failed to parse imported settings"
    ELSE ""

\* Result<()> of import_settings up to validate: the context of the step
\* that failed, or "" when the file is read, parsed and valid
ImportError(file) ==
    IF ~file.read THEN "Failed to read settings"
    ELSE IF ~file.parse THEN "Failed to parse imported settings"
    ELSE IF validate(file.settings) # "" THEN "Imported settings are invalid"
    ELSE ""

\* main with --import-settings: TwitchIndicator::new, then import_settings
\* reads, parses and validates the file, replaces the shared config by the
\* one of the file and saves it, then main returns
import_settings(file, saved) ==
    /\ ipc = "run"
    /\ file \in ImportFiles
    /\ IF ImportError(file) = ""
       THEN /\ config_token' = file.access_token
            /\ config_settings' = file.settings
            /\ file_token' = IF saved THEN file.access_token ELSE file_token
            /\ file_settings' = IF saved THEN file.settings ELSE file_settings
            /\ ipc' = "imported"
       ELSE /\ UNCHANGED <<config_token, file_token, config_settings, file_settings>>
            /\ ipc' = "exit"
    /\ import_file' = file
    /\ UNCHANGED <<authenticated_user, current_streams, shown_streams,
                   notify_enabled, notified, resp, inflight, ticks, api_requests, reauths>>
    /\ UNCHANGED <<auth_call, settingsVars>>
    /\ UNCHANGED <<access_token, apiLocals>>
    /\ UNCHANGED <<notifyLog, trayVars>>
    /\ UNCHANGED oauthVars

\* main with --gtk-settings, a process of its own: Config::load_or_create
\* reads config.toml and GtkSettingsWindow::new clones it into temp_config
gtk_settings ==
    /\ spc = "none"
    /\ spc' = "open"
    /\ settings_token' = file_token
    /\ settings_client_id' = file_settings.client_id
    /\ UNCHANGED <<ipc, config_token, authenticated_user, current_streams, shown_streams,
                   notify_enabled, notified, resp, inflight, ticks, api_requests, reauths>>
    /\ UNCHANGED tokenVars
    /\ UNCHANGED <<access_token, apiLocals>>
    /\ UNCHANGED <<notifyLog, trayVars, fileVars>>
    /\ UNCHANGED oauthVars

\* Apply or OK of the settings window: the fields of the widgets are written
\* into the config the process loaded, and the whole of it is saved.
\* `interval` and `timeout` are the values of the two spin buttons.
show_sync_apply(saved, interval, timeout) ==
    /\ spc = "open"
    /\ file_token' = IF saved THEN settings_token ELSE file_token
    /\ file_settings' =
            IF saved
            THEN [refresh_interval_minutes |-> interval, timeout_ms |-> timeout,
                  client_id |-> settings_client_id]
            ELSE file_settings
    /\ UNCHANGED <<ipc, config_token, authenticated_user, current_streams, shown_streams,
                   notify_enabled, notified, resp, inflight, ticks, api_requests, reauths>>
    /\ UNCHANGED <<auth_call, settingsVars>>
    /\ UNCHANGED <<access_token, apiLocals>>
    /\ UNCHANGED <<notifyLog, trayVars, config_settings, import_file>>
    /\ UNCHANGED oauthVars

\* the settings window is closed: gtk::main_quit, the process ends
show_sync_close ==
    /\ spc = "open"
    /\ spc' = "none"
    /\ settings_token' = <<>>
    /\ settings_client_id' = ""
    /\ UNCHANGED <<ipc, config_token, authenticated_user, current_streams, shown_streams,
                   notify_enabled, notified, resp, inflight, ticks, api_requests, reauths>>
    /\ UNCHANGED tokenVars
    /\ UNCHANGED <<access_token, apiLocals>>
    /\ UNCHANGED <<notifyLog, trayVars, fileVars>>
    /\ UNCHANGED oauthVars

\* variant: run goes on to run_with_tray whatever get_user returned
indicator_get_user_goes_on(rsp, trayOk) ==
    /\ ipc \in {"get_user", "reauth_user"}
    /\ rsp \in UserResponses
    /\ LET out == get_user(access_token, rsp.page, rsp.data) IN
       /\ api_requests' = api_requests + Len(out.reqs)
       /\ authenticated_user' = IF out.res.ok THEN out.res.data ELSE authenticated_user
       /\ ipc' = IF ipc = "reauth_user" THEN "sleep"
                 ELSE IF trayOk THEN "initial_update" ELSE "exit"
    /\ UNCHANGED <<config_token, current_streams, shown_streams,
                   notify_enabled, notified, resp, inflight, ticks, reauths>>
    /\ UNCHANGED <<access_token, apiLocals>>
    /\ UNCHANGED <<tokenVars, settingsVars>>
    /\ UNCHANGED <<notifyLog, trayVars, fileVars>>
    /\ UNCHANGED oauthVars

\* get_user: in run its failure, or that of SystemTray::new, ends run; in
\* the loop only a success is used
indicator_get_user(rsp, trayOk) ==
    /\ ipc \in {"get_user", "reauth_user"}
    /\ rsp \in UserResponses
    /\ LET out == get_user(access_token, rsp.page, rsp.data) IN
       /\ api_requests' = api_requests + Len(out.reqs)
       /\ authenticated_user' = IF out.res.ok THEN out.res.data ELSE authenticated_user
       /\ ipc' = IF ipc = "reauth_user" THEN "sleep"
                 ELSE IF out.res.ok /\ trayOk THEN "initial_update" ELSE "exit"
    /\ UNCHANGED <<config_token, current_streams, shown_streams,
                   notify_enabled, notified, resp, inflight, ticks, reauths>>
    /\ UNCHANGED <<access_token, apiLocals>>
    /\ UNCHANGED <<tokenVars, settingsVars>>
    /\ UNCHANGED <<notifyLog, trayVars, fileVars>>
    /\ UNCHANGED oauthVars

\* variant of tick: the timer starts a cycle whatever the loop is doing
tick_spawns_cycle ==
    /\ Periodic
    /\ ticks < MaxTicks
    /\ ticks' = ticks + 1
    /\ ipc' = "update"
    /\ UNCHANGED <<config_token, authenticated_user, current_streams, shown_streams,
                   notify_enabled, notified, resp, inflight, api_requests, reauths>>
    /\ UNCHANGED <<access_token, apiLocals>>
    /\ UNCHANGED <<tokenVars, settingsVars>>
    /\ UNCHANGED <<notifyLog, trayVars, fileVars>>
    /\ UNCHANGED oauthVars

\* interval_timer.tick().await completes
tick ==
    /\ ipc = "tick"
    /\ ticks < MaxTicks
    /\ ticks' = ticks + 1
    /\ ipc' = "update"
    /\ UNCHANGED <<config_token, authenticated_user, current_streams, shown_streams,
                   notify_enabled, notified, resp, inflight, api_requests, reauths>>
    /\ UNCHANGED <<access_token, apiLocals>>
    /\ UNCHANGED <<tokenVars, settingsVars>>
    /\ UNCHANGED <<notifyLog, trayVars, fileVars>>
    /\ UNCHANGED oauthVars

\* update_streams up to the await of the request of get_followed_streams
update_streams(rsp) ==
    /\ ipc \in {"initial_update", "update"}
    /\ rsp \in PollResponses
    /\ resp' = rsp
    /\ inflight' = inflight + 1
    /\ api_requests' = api_requests +
            (IF authenticated_user = <<>> THEN 0
             ELSE Len(get_followed_streams(access_token, rsp.page, rsp.data).reqs))
    /\ ipc' = IF ipc = "update" THEN "inflight" ELSE "initial_inflight"
    /\ UNCHANGED <<config_token, authenticated_user, current_streams, shown_streams,
                   notify_enabled, notified, ticks, reauths>>
    /\ UNCHANGED <<access_token, apiLocals>>
    /\ UNCHANGED <<tokenVars, settingsVars>>
    /\ UNCHANGED <<notifyLog, trayVars, fileVars>>
    /\ UNCHANGED oauthVars

\* Result<()> of update_streams given the response in flight
UpdateResult ==
    IF authenticated_user = <<>> THEN ApiErr("No authenticated user")
    ELSE Context(get_followed_streams(access_token, resp.page, resp.data).res,
                 "Failed to get followed streams")

\* variant: every new stream is tracked, displayed or not
notify_new_streams_tracks_failed(streams, failing) ==
    IF ~notify_enabled
    THEN [shown |-> shown_streams, count |-> 0, new_streams |-> {}, displayed |-> {}]
    ELSE LET new_streams == StreamIds(streams) \ shown_streams
             displayed == new_streams \ failing IN
         [shown |-> shown_streams \cup new_streams, count |-> Cardinality(displayed),
          new_streams |-> new_streams, displayed |-> displayed]

\* notify_new_streams: the streams not yet in shown_streams are notified;
\* those whose notification is shown are inserted. `failing` are the ids for
\* which show_stream_notification fails.
notify_new_streams(streams, failing) ==
    IF ~notify_enabled
    THEN [shown |-> shown_streams, count |-> 0, new_streams |-> {}, displayed |-> {}]
    ELSE LET new_streams == StreamIds(streams) \ shown_streams
             displayed == new_streams \ failing IN
         [shown |-> shown_streams \cup displayed, count |-> Cardinality(displayed),
          new_streams |-> new_streams, displayed |-> displayed]
\* the notification log after a successful poll: the ids whose notification
\* failed, and per id the notifications displayed since the id was last
\* absent from a successful poll
NotifyLog(streams, n) ==
    [failed |-> n.new_streams \ n.displayed,
     notify_count |->
        [s \in StreamIdSet |->
            IF s \notin StreamIds(streams) THEN 0
            ELSE notify_count[s] + (IF s \in n.displayed THEN 1 ELSE 0)]]
\* variant: nothing is dropped from the tracked set
update_live_streams_keeps(shown, streams) == shown
\* variant: the tracked set is emptied after every poll
update_live_streams_clears(shown, streams) == {}
\* update_live_streams: retain the ids that are still live
update_live_streams(shown, streams) == shown \cap StreamIds(streams)

\* str::contains over the messages of the model
Contains(msg, needle) ==
    \/ msg = needle
    \/ /\ msg = "Authentication failed - token may be expired"
       /\ needle \in {"Authentication failed", "token may be expired"}
\* the test of periodic_update_loop on e.to_string(): the outermost context
\* when there is one, else the message of the error itself, which for the
\* catch-all arm of make_api_request ends with the body of the response
AuthenticationErrorDetected(r) ==
    \E needle \in {"Authentication failed", "token may be expired", "Unauthorized"} :
        IF r.ctx # <<>> THEN Contains(Display(r), needle)
        ELSE Contains(r.err, needle) \/ (r.status # 0 /\ Contains(r.body, needle))

\* variant: a failed cycle is tried again at once
update_streams_done_retries(failing, trayOk) ==
    /\ ipc \in {"initial_inflight", "inflight"}
    /\ inflight' = inflight - 1
    /\ LET r == UpdateResult IN
       IF r.ok THEN
            LET n == notify_new_streams(r.data, failing) IN
            /\ notified' = notified + n.count
            /\ shown_streams' = update_live_streams(n.shown, r.data)
            /\ current_streams' = r.data
            /\ failed' = NotifyLog(r.data, n).failed
            /\ notify_count' = NotifyLog(r.data, n).notify_count
            /\ ipc' = IF ipc = "inflight" THEN "sleep" ELSE IF trayOk THEN "tick" ELSE "exit"
       ELSE
            /\ UNCHANGED <<notified, shown_streams, current_streams, notifyLog>>
            /\ ipc' = IF ipc = "inflight" THEN "update" ELSE IF trayOk THEN "tick" ELSE "exit"
    /\ UNCHANGED <<config_token, authenticated_user, notify_enabled, resp, ticks,
                   api_requests, reauths>>
    /\ UNCHANGED <<access_token, apiLocals>>
    /\ UNCHANGED <<tokenVars, settingsVars>>
    /\ tray_streams' = IF ipc = "initial_inflight" THEN current_streams' ELSE tray_streams
    /\ tray_pc' = IF ipc = "initial_inflight" /\ trayOk THEN "run" ELSE tray_pc
    /\ UNCHANGED fileVars
    /\ UNCHANGED oauthVars

\* variant: a failed cycle empties the list of live streams
update_streams_done_clears(failing, trayOk) ==
    /\ ipc \in {"initial_inflight", "inflight"}
    /\ inflight' = inflight - 1
    /\ LET r == UpdateResult IN
       IF r.ok THEN
            LET n == notify_new_streams(r.data, failing) IN
            /\ notified' = notified + n.count
            /\ shown_streams' = update_live_streams(n.shown, r.data)
            /\ current_streams' = r.data
            /\ failed' = NotifyLog(r.data, n).failed
            /\ notify_count' = NotifyLog(r.data, n).notify_count
            /\ ipc' = IF ipc = "inflight" THEN "sleep" ELSE IF trayOk THEN "tick" ELSE "exit"
       ELSE
            /\ current_streams' = <<>>
            /\ shown_streams' = {}
            /\ UNCHANGED <<notified, notifyLog>>
            /\ ipc' = IF ipc = "initial_inflight" THEN (IF trayOk THEN "tick" ELSE "exit")
                      ELSE IF AuthenticationErrorDetected(r) THEN "reauth" ELSE "sleep"
    /\ UNCHANGED <<config_token, authenticated_user, notify_enabled, resp, ticks,
                   api_requests, reauths>>
    /\ UNCHANGED <<access_token, apiLocals>>
    /\ UNCHANGED <<tokenVars, settingsVars>>
    /\ tray_streams' = IF ipc = "initial_inflight" THEN current_streams' ELSE tray_streams
    /\ tray_pc' = IF ipc = "initial_inflight" /\ trayOk THEN "run" ELSE tray_pc
    /\ UNCHANGED fileVars
    /\ UNCHANGED oauthVars

\* update_streams from the response on, and what its caller does with the
\* result: run_with_tray logs a failure, gives current_streams to the tray,
\* spawns the loop and enters SystemTray::run; periodic_update_loop logs a
\* failure, re-authenticates when the message tells an authentication
\* error, then sleeps
update_streams_done(failing, trayOk) ==
    /\ ipc \in {"initial_inflight", "inflight"}
    /\ inflight' = inflight - 1
    /\ LET r == UpdateResult IN
       IF r.ok THEN
            LET n == notify_new_streams(r.data, failing) IN
            /\ notified' = notified + n.count
            /\ shown_streams' = update_live_streams(n.shown, r.data)
            /\ current_streams' = r.data
            /\ failed' = NotifyLog(r.data, n).failed
            /\ notify_count' = NotifyLog(r.data, n).notify_count
            /\ ipc' = IF ipc = "inflight" THEN "sleep" ELSE IF trayOk THEN "tick" ELSE "exit"
       ELSE
            /\ UNCHANGED <<notified, shown_streams, current_streams, notifyLog>>
            /\ ipc' = IF ipc = "initial_inflight" THEN (IF trayOk THEN "tick" ELSE "exit")
                      ELSE IF AuthenticationErrorDetected(r) THEN "reauth" ELSE "sleep"
    /\ UNCHANGED <<config_token, authenticated_user, notify_enabled, resp, ticks,
                   api_requests, reauths>>
    /\ UNCHANGED <<access_token, apiLocals>>
    /\ UNCHANGED <<tokenVars, settingsVars>>
    /\ tray_streams' = IF ipc = "initial_inflight" THEN current_streams' ELSE tray_streams
    /\ tray_pc' = IF ipc = "initial_inflight" /\ trayOk THEN "run" ELSE tray_pc
    /\ UNCHANGED fileVars
    /\ UNCHANGED oauthVars

\* sleep(Duration::from_secs(1)).await completes
sleep ==
    /\ ipc = "sleep"
    /\ ipc' = "tick"
    /\ UNCHANGED <<config_token, authenticated_user, current_streams, shown_streams,
                   notify_enabled, notified, resp, inflight, ticks, api_requests, reauths>>
    /\ UNCHANGED <<access_token, apiLocals>>
    /\ UNCHANGED <<tokenVars, settingsVars>>
    /\ UNCHANGED <<notifyLog, trayVars, fileVars>>
    /\ UNCHANGED oauthVars

\* the quit item of the menu SystemTray::run built: sender.send(true)
quit ==
    /\ tray_pc = "run"
    /\ tray_pc' = "signalled"
    /\ UNCHANGED <<ipc, config_token, authenticated_user, current_streams, shown_streams,
                   notify_enabled, notified, resp, inflight, ticks, api_requests, reauths>>
    /\ UNCHANGED <<access_token, apiLocals>>
    /\ UNCHANGED <<tokenVars, settingsVars>>
    /\ UNCHANGED <<notifyLog, tray_streams, fileVars>>
    /\ UNCHANGED oauthVars

\* variant: run_with_tray returns and the periodic task lives on
tray_run_keeps_task ==
    /\ tray_pc = "signalled"
    /\ tray_pc' = "returned"
    /\ UNCHANGED <<ipc, config_token, authenticated_user, current_streams, shown_streams,
                   notify_enabled, notified, resp, inflight, ticks, api_requests, reauths>>
    /\ UNCHANGED <<access_token, apiLocals>>
    /\ UNCHANGED <<tokenVars, settingsVars>>
    /\ UNCHANGED <<notifyLog, tray_streams, fileVars>>
    /\ UNCHANGED oauthVars

\* SystemTray::run sees the shutdown signal and returns; run_with_tray
\* aborts the periodic task and returns, and main returns with it
tray_run ==
    /\ tray_pc = "signalled"
    /\ tray_pc' = "returned"
    /\ ipc' = "quit"
    /\ inflight' = 0
    /\ UNCHANGED <<config_token, authenticated_user, current_streams, shown_streams,
                   notify_enabled, notified, resp, ticks, api_requests, reauths>>
    /\ UNCHANGED <<access_token, apiLocals>>
    /\ UNCHANGED <<tokenVars, settingsVars>>
    /\ UNCHANGED <<notifyLog, tray_streams, fileVars>>
    /\ UNCHANGED oauthVars

PollNext ==
    \/ run
    \/ \E valid \in BOOLEAN : validate_and_refresh_token(valid)
    \/ \E outcome \in OAuthOutcomes : indicator_authenticate(outcome)
    \/ \E saved \in BOOLEAN : authenticate_save_default(saved)
    \/ \E file \in ImportFiles, saved \in BOOLEAN : import_settings(file, saved)
    \/ gtk_settings
    \/ \E saved \in BOOLEAN :
            show_sync_apply(saved, DefaultSettings.refresh_interval_minutes, DefaultSettings.timeout_ms)
    \/ show_sync_close
    \/ \E rsp \in UserResponses, trayOk \in BOOLEAN : indicator_get_user(rsp, trayOk)
    \/ tick
    \/ \E rsp \in PollResponses : update_streams(rsp)
    \/ \E failing \in SUBSET {"s1", "s2"}, trayOk \in BOOLEAN : update_streams_done(failing, trayOk)
    \/ sleep
    \/ quit
    \/ tray_run

PollSpec == PollInit /\ [][PollNext]_vars

\* --------------------------------------- the request handlers on their own
\* the connections handle_https_request_implicit is studied on: those whose
\* handshake succeeded, and the incomplete bodies also with the `state` of
\* the attempt
CallbackConnections ==
    {c \in Connections : c.tls /\ c.stall = ""} \cup {[c EXCEPT !.json.state = 1] : c \in BrokenPosts}
\* one request is given either to the handler of the code flow or, as a
\* connection, to the handler of the implicit flow
CallbackInit ==
    /\ attempt = 1
    /\ apc = "await"
    /\ nonce = 1
    /\ authResult = <<>>
    /\ chan = [a \in Attempts |-> IF a = 1 THEN NewChannel ELSE NoChannel]
    /\ lpc = "handle"
    /\ latt = 1
    /\ lstate = 1
    /\ ports = {REDIRECT_PORT}
    /\ accepted = 1
    /\ sends = [a \in Attempts |-> 0]
    /\ binds = [a \in Attempts |-> IF a = 1 THEN 1 ELSE 0]
    /\ spawned = [a \in Attempts |-> a = 1]
    /\ opened = [a \in Attempts |-> IF a = 1 THEN 1 ELSE 0]
    /\ deliveredBy = [a \in Attempts |-> <<>>]
    /\ auth_url = [a \in Attempts |-> IF a = 1 THEN 1 ELSE NoState]
    /\ cb_result = <<>>
    /\ \/ cb_request \in CallbackRequests /\ conn = NoConn
       \/ cb_request = NoCallback /\ conn \in CallbackConnections
    /\ PageIdle

\* handle_https_request on the request, the token endpoint answering `outcome`
handle_callback(outcome) ==
    /\ cb_request # NoCallback
    /\ cb_result = <<>>
    /\ cb_result' = <<handle_https_request(cb_request, cb_request.expected, outcome)>>
    /\ UNCHANGED <<attempt, apc, nonce, authResult, chan, lpc, latt, lstate, conn, ports,
                   accepted, sends, binds, spawned, opened, deliveredBy, auth_url, cb_request>>
    /\ UNCHANGED pageVars
    /\ UNCHANGED pollVars

\* handle_https_request_implicit on the connection
handle_callback_implicit ==
    /\ cb_request = NoCallback
    /\ conn # NoConn
    /\ cb_result = <<>>
    /\ cb_result' = <<ImplicitResult(handle_https_request_implicit(conn, lstate))>>
    /\ UNCHANGED <<attempt, apc, nonce, authResult, chan, lpc, latt, lstate, conn, ports,
                   accepted, sends, binds, spawned, opened, deliveredBy, auth_url, cb_request>>
    /\ UNCHANGED pageVars
    /\ UNCHANGED pollVars

CallbackNext ==
    \/ \E outcome \in ExchangeOutcomes : handle_callback(outcome)
    \/ handle_callback_implicit

CallbackSpec == CallbackInit /\ [][CallbackNext]_vars

Init == OAuthInit /\ PageIdle

Next ==
    \/ authenticate
    \/ \E certOk \in BOOLEAN, extBusy \in BOOLEAN : start_callback_server_implicit(certOk, extBusy)
    \/ \E ok \in BOOLEAN : open_browser(ok)
    \/ receive
    \/ \E c \in Connections : accept(c)
    \/ accept_error
    \/ tls_accept
    \/ handle_connection

Spec == Init /\ [][Next]_vars

\* the runtime keeps polling a task that can make progress
FairSpec ==
    Spec /\ WF_vars(receive) /\ WF_vars(tls_accept) /\ WF_vars(handle_connection)

\* ======================================================== claims C1 .. C10
ListenerLive == lpc \in {"accept", "handshake", "handle"}

\* C1: authenticate() returns a token only if the request that delivered the
\* token carried a state equal to the nonce of the attempt, and a token POST
\* whose state differs from the nonce (or is missing) fails the attempt with
\* a state-mismatch error.
C1_TokenOnlyWithMatchingState ==
    /\ [](authResult # <<>> /\ authResult[1].ok
            => /\ deliveredBy[attempt] # <<>>
               /\ deliveredBy[attempt][1].json.state = nonce)
    /\ [][(lpc = "handle" /\ StartsWithPostToken(conn) /\ conn.rd
              /\ conn.json.state # lstate /\ lpc' # lpc)
            => /\ lpc' = "exited"
               /\ chan'[latt].rx => chan'[latt].val = <<AuthErr("State mismatch")>>]_vars

\* C2: once the redirect with error=access_denied has been handled, the
\* listener has stopped (it does not go back to accepting) and the denial is
\* on the completion channel, for authenticate() to return as a failure.
C2_DeniedEndsAttempt ==
    [][(lpc = "handle" /\ conn.rd /\ conn.error = "access_denied" /\ conn.wr
            /\ latt = attempt /\ apc = "await" /\ lpc' # lpc)
        => /\ lpc' = "exited"
           /\ chan'[latt].val = <<AuthErr("OAuth error: access_denied")>>]_vars

\* C3: when the listener of the running attempt handles the token POST of
\* the bootstrap page (access_token t, token_type bearer), authenticate()
\* eventually returns success with access_token t and token_type bearer.
C3_TokenPostCompletes ==
    \A t \in Tokens :
        (lpc = "handle" /\ latt = attempt /\ apc = "await" /\ conn \in TokenPosts
            /\ conn.wr /\ conn.json.access_token = <<t>>)
        ~> (apc = "done" /\ authResult = <<OkToken(t, "bearer")>>)

C3_Witness ==
    /\ apc = "done"
    /\ authResult = <<OkToken("T1", "bearer")>>
    /\ deliveredBy[attempt] # <<>>
    /\ deliveredBy[attempt][1].json.access_token = <<"T1">>

\* C4: a listener task calls send at most once, and once it has sent it is
\* no longer accepting or handling a connection.
C4_SingleFire ==
    /\ \A a \in Attempts : sends[a] <= 1
    /\ ListenerLive => sends[latt] = 0

C4_Witness == lpc = "exited" /\ sends[latt] = 1 /\ accepted >= 2

\* C5: when the listener task has exited, the waiting authenticate() returns:
\* with the result the task sent, or, when the task sent nothing, with the
\* channel-closed failure.
C5_ExitUnblocks ==
    /\ [](apc = "await" /\ latt = attempt /\ lpc = "exited" /\ sends[attempt] = 1
            => chan[attempt].val # <<>>)
    /\ [](apc = "done" /\ opened[attempt] = 1
              /\ authResult # <<AuthErr("Failed to open browser")>>
            => IF sends[attempt] = 1
               THEN authResult = chan[attempt].val
               ELSE /\ authResult = <<AuthErr("Failed to receive OAuth callback")>>
                    /\ lpc = "exited")
    /\ (apc = "await" /\ latt = attempt /\ lpc = "exited") ~> (apc = "done")

C5_Witness ==
    /\ apc = "done"
    /\ lpc = "exited"
    /\ sends[attempt] = 0
    /\ authResult = <<AuthErr("Failed to receive OAuth callback")>>

\* an accepted connection whose request cannot be parsed
Unparseable(c) ==
    \/ ~c.rd
    \/ /\ StartsWithPostToken(c)
       /\ ~c.hdr \/ c.clen # "exact" \/ ~c.utf8 \/ ~DecodesAsTokenResponse(c.json)

\* C6: handling a connection whose request cannot be parsed sends nothing on
\* the completion channel and leaves the listener accepting.
C6_ParseFailureSwallowed ==
    [][(lpc = "handle" /\ Unparseable(conn) /\ lpc' # lpc)
        => lpc' = "accept" /\ sends' = sends /\ chan' = chan]_vars

\* C7: a failed TLS handshake sends nothing on the completion channel and the
\* listener goes back to accepting, still holding the port.
C7_HandshakeFailureContinues ==
    [][(lpc = "handshake" /\ ~conn.tls /\ lpc' # lpc)
        => /\ lpc' = "accept"
           /\ sends' = sends
           /\ chan' = chan
           /\ REDIRECT_PORT \in ports']_vars

C7_Witness == lpc = "handshake" /\ ~conn.tls /\ accepted >= 2 /\ sends[latt] = 0

\* C8: whenever authenticate() has returned, the listener task of that
\* attempt has ended and the port is no longer held by it.
C8_ReturnedMeansListenerEnded ==
    apc = "done" => ~(ListenerLive /\ latt = attempt)

\* C9: an attempt whose bind failed made one bind call, spawned no listener
\* task, opened no browser, had nothing sent on its channel, and
\* authenticate() returned the bind failure.
C9_BindFailureIsFatal ==
    \A a \in Attempts :
        (binds[a] >= 1 /\ ~spawned[a])
        => /\ binds[a] = 1
           /\ opened[a] = 0
           /\ sends[a] = 0
           /\ chan[a].val = <<>>
           /\ a = attempt => apc = "done" /\ authResult = <<AuthErr("Failed to bind to port")>>

C9_Witness ==
    /\ apc = "done"
    /\ authResult = <<AuthErr("Failed to bind to port")>>
    /\ binds[attempt] = 1
    /\ ~spawned[attempt]

\* the first page of the source whose cursor is absent or empty
RECURSIVE FirstStop(_, _)
FirstStop(s, i) ==
    IF i >= Len(s) \/ PaginationCursor(s[i]) \in {<<>>, <<"">>} THEN i ELSE FirstStop(s, i + 1)

\* C10: get_followed_channels never issues a request with an empty `after`,
\* and against successful pages it stops after the first page whose cursor is
\* absent or empty, returning the items of the pages up to it.
C10_EmptyCursorIsAbsent ==
    /\ \A i \in 1..Len(requests) : requests[i].after # <<"">>
    /\ (call.op = "get_followed_channels" /\ gpc = "done" /\ gResult[1].ok
            /\ \A i \in 1..Len(pages) : pages[i] \in OkPages)
        => /\ Len(requests) = FirstStop(pages, 1)
           /\ gResult[1].data = [i \in 1..FirstStop(pages, 1) |-> i]

\* ======================================================= claims C11 .. C20
\* a source of successful pages of which all but the last carry a cursor
AllButLastCarryCursor ==
    /\ \A i \in 1..Len(pages) : pages[i] \in OkPages
    /\ \A i \in 1..(Len(pages) - 1) : pages[i].pagination /\ pages[i].cursor # <<>>
    /\ ~pages[Len(pages)].pagination \/ pages[Len(pages)].cursor = <<>>

\* C11: against successful pages of which all but the last carry a cursor,
\* get_followed_channels issues one request per page, the first without
\* `after`, each later one with the cursor of the page before, and returns
\* the items of all pages in the order received.
C11_OneRequestPerPage ==
    (call.op = "get_followed_channels" /\ gpc = "done" /\ access_token # <<>>
        /\ AllButLastCarryCursor)
    => /\ Len(requests) = Len(pages)
       /\ requests[1].after = <<>>
       /\ \A i \in 2..Len(pages) : requests[i].after = pages[i - 1].cursor
       /\ gResult = <<ApiOk([i \in 1..Len(pages) |-> i])>>

C11_Witness ==
    /\ call.op = "get_followed_channels"
    /\ gpc = "done"
    /\ AllButLastCarryCursor
    /\ Len(requests) = 3
    /\ requests[3].after = <<"b">>
    /\ gResult[1].data = <<1, 2, 3>>

\* C13 as stated: without a token every typed read operation, whatever its
\* arguments, fails with the unauthenticated error and issues no request.
C13_NoTokenAlwaysFails ==
    (access_token = <<>> /\ gpc = "done")
    => /\ requests = <<>>
       /\ ~gResult[1].ok
       /\ gResult[1].err = "No access token available for API request"

\* C13 amended: without a token no typed read operation issues a request;
\* each fails with the unauthenticated error, except the bulk operations
\* called with an empty id list, which return an empty list.
C13_NoTokenNoRequest ==
    (access_token = <<>> /\ gpc = "done")
    => /\ requests = <<>>
       /\ IF call.op \in BulkOps /\ call.ids = <<>>
          THEN gResult = <<ApiOk(<<>>)>>
          ELSE /\ ~gResult[1].ok
               /\ gResult[1].err = "No access token available for API request"

C13_Witness ==
    /\ access_token = <<>>
    /\ gpc = "done"
    /\ call.op = "get_users_by_ids"
    /\ call.ids = <<"u1", "u2">>
    /\ ~gResult[1].ok

\* C14 as stated: a bulk operation called with an empty id list makes no
\* request and returns an empty list; called with a non-empty list it makes
\* exactly one request carrying every id.
C14_BulkRequests ==
    (gpc = "done" /\ call.op \in BulkOps)
    => IF call.ids = <<>>
       THEN requests = <<>> /\ gResult = <<ApiOk(<<>>)>>
       ELSE Len(requests) = 1 /\ requests[1].ids = call.ids

\* C14 amended: ... called with a non-empty list on a client that holds an
\* access token it makes exactly one request carrying every id.
C14_BulkRequestsWithToken ==
    (gpc = "done" /\ call.op \in BulkOps)
    => IF call.ids = <<>>
       THEN requests = <<>> /\ gResult = <<ApiOk(<<>>)>>
       ELSE access_token # <<>> => Len(requests) = 1 /\ requests[1].ids = call.ids

C14_Witness ==
    /\ gpc = "done"
    /\ call.op = "get_streams_by_user_ids"
    /\ call.ids = <<"u1", "u2">>
    /\ Len(requests) = 1
    /\ requests[1].ids = <<"u1", "u2">>

\* C15: the status of the response decides the outcome of the request: 200
\* is no status failure, 401 is the unauthorized failure, 429 the
\* rate-limited failure, any other status the remote failure carrying the
\* status and the body; each of the three failures arises from its statuses
\* only.
C15_StatusClassification ==
    (gpc = "done" /\ requests # <<>> /\ Response(Len(requests)).sent)
    => LET rsp == Response(Len(requests))
           r == gResult[1]
       IN
       /\ rsp.status = StatusUnauthorized
            <=> r.err = "Authentication failed - token may be expired"
       /\ rsp.status = StatusTooManyRequests <=> r.err = "Rate limit exceeded"
       /\ rsp.status \notin {StatusOK, StatusUnauthorized, StatusTooManyRequests}
            <=> r.err = "API request failed"
       /\ r.err = "API request failed" => r.status = rsp.status /\ r.body = rsp.body
       /\ rsp.status = StatusOK /\ rsp.decodes /\ call.op # "get_user" => r.ok

C15_Witness ==
    /\ gpc = "done"
    /\ Len(requests) = 2
    /\ Response(2).status = StatusTooManyRequests
    /\ gResult[1].err = "Rate limit exceeded"

\* C17: within one call a request that fails (transport error, non-200
\* status, undecodable body) is the last request of the call and the call
\* ends with a failure; the one-request operations issue at most one request.
C17_NoRetry ==
    /\ \A i \in 1..Len(requests) :
            Response(i) \notin OkPages
            => i = Len(requests) /\ gpc = "done" /\ ~gResult[1].ok
    /\ call.op \in SingleOps => Len(requests) <= 1

C17_Witness ==
    /\ call.op = "get_followed_channels"
    /\ gpc = "done"
    /\ Len(requests) = 2
    /\ Response(2) \notin OkPages
    /\ ~gResult[1].ok


\* C12 (as claimed): get_followed_streams follows the cursor loop: when the
\* response carries a continuation cursor, a further request is issued with
\* that cursor as `after`.
C12_FollowedStreamsFollowCursor ==
    (/\ gpc = "done"
     /\ call.op = "get_followed_streams"
     /\ access_token # <<>>
     /\ Response(1) \in OkPages
     /\ PaginationCursor(Response(1)) = <<"a">>)
        => (Len(requests) >= 2 /\ requests[2].after = <<"a">>)

\* the request of the poll cycle was sent with a token and answered with `st`
Answered(st) ==
    /\ authenticated_user # <<>>
    /\ access_token # <<>>
    /\ resp.page.sent
    /\ resp.page.status = st

\* C16 (as claimed): when a periodic poll cycle fails on a 401 answer, the
\* loop goes on to a fresh authentication attempt before the next cycle.
C16_UnauthorizedReauthenticates ==
    [][(ipc = "inflight" /\ Answered(StatusUnauthorized) /\ ipc' \notin {"inflight", "quit"})
            => ipc' = "reauth"]_vars

\* C18: from the failure of a poll cycle on a 429 answer until the next tick
\* of the interval, the loop puts no request on the network, starts no
\* re-authentication, and begins the next cycle only through a tick.
C18_RateLimitedBacksOff ==
    [][(ipc \in {"inflight", "sleep", "tick"} /\ Answered(StatusTooManyRequests))
            => /\ api_requests' = api_requests
               /\ reauths' = reauths
               /\ ipc' \notin {"reauth", "reauth_user"}
               /\ ipc' = "update" => (ipc = "tick" /\ ticks' = ticks + 1)]_vars
\* a periodic cycle failed on a 429 and the loop waits for the next tick
C18_Witness ==
    /\ ipc = "tick"
    /\ ticks >= 1
    /\ Answered(StatusTooManyRequests)
    /\ ~UpdateResult.ok

\* C19: at most one update_streams call is in progress at any time, and
\* neither a new cycle nor a re-authentication starts while one is.
C19_OneCycleAtATime ==
    /\ inflight <= 1
    /\ ipc \in {"update", "initial_update", "reauth", "reauth_user"} => inflight = 0
\* the request of the second periodic cycle is in flight
C19_Witness == ipc = "inflight" /\ inflight = 1 /\ ticks >= 2

\* C20: the step that processes a failed periodic poll cycle leaves
\* current_streams and shown_streams as they were, shows no notification,
\* and keeps the loop going.
C20_FailedCycleKeepsState ==
    [][(ipc = "inflight" /\ ~UpdateResult.ok /\ ipc' # ipc)
            => /\ current_streams' = current_streams
               /\ shown_streams' = shown_streams
               /\ notified' = notified
               /\ ipc' \in {"sleep", "reauth", "quit"}]_vars
\* a periodic cycle has failed while streams were live and tracked
C20_Witness ==
    /\ ipc = "sleep"
    /\ ticks >= 1
    /\ ~UpdateResult.ok
    /\ current_streams # <<>>
    /\ shown_streams # {}
    /\ notified >= 1

\* ------------------------------------------------------- claims C21 .. C30
\* a call of TwitchClient::authenticate is between its start and its return
AuthenticateInProgress == ipc \in {"auth", "reauth", "auth_save", "reauth_save"}

\* C21 (as claimed): once the indicator is constructed and outside a call of
\* authenticate, a token held by the shared config is also the token of the
\* client.
C21_TokenNeverTorn ==
    (ipc # "none" /\ ~AuthenticateInProgress /\ config_token # <<>>)
        => access_token = config_token

\* C21 (amended): in a process that has not imported settings, outside a
\* call of authenticate a token held by the shared config is the token of
\* the client, and every step that writes a token leaves the same whole
\* token in both holders.
C21_TokenNeverTornInRun ==
    /\ []((ipc \notin {"none", "imported"} /\ ~AuthenticateInProgress /\ config_token # <<>>)
            => access_token = config_token)
    /\ [][((access_token' # access_token \/ config_token' # config_token) /\ ipc' # "imported")
            => (config_token' # <<>> /\ access_token' = config_token')]_vars
\* authenticate has replaced the stored token T0 in both holders
C21_Witness ==
    /\ ipc = "tick"
    /\ auth_call.state = "ok"
    /\ auth_call.client = <<"T0">>
    /\ access_token = <<"T1">>
    /\ config_token = <<"T1">>

\* C22 (as claimed): once authenticate has persisted the token it obtained,
\* config.toml holds that token, whatever the settings process saves.
C22_NoLostTokenWrite ==
    auth_call.state = "ok" => file_token = config_token

\* C30 (as claimed): when TwitchClient::authenticate has returned an error,
\* the token of the client and the token of the shared config are the ones
\* from before the call.
C30_AllOrNothing ==
    auth_call.state = "err"
        => (access_token = auth_call.client /\ config_token = auth_call.config)

\* handle_https_request has read a request with a query and written its page
Validated ==
    /\ cb_result # <<>>
    /\ cb_request.rd
    /\ cb_request.parts
    /\ cb_request.query # <<>>
    /\ cb_request.wr

\* C23 (as claimed): the checks apply in the order error, state, code: an
\* error field fails with the denial and its text; otherwise a state that
\* differs from the expected one fails with the state mismatch; otherwise
\* a missing code fails with the missing field.
C23_RulesInOrder ==
    Validated =>
        LET p == parse_query_params(cb_request.query[1])
            r == cb_result[1]
        IN  IF p.error # <<>> THEN r.err = "OAuth error" /\ r.detail = p.error[1]
            ELSE IF p.state # <<>> /\ p.state[1] # cb_request.expected
                THEN r.err = "State mismatch"
            ELSE IF p.state # <<>> /\ p.code = <<>>
                THEN r.err = "No authorization code received"
            ELSE TRUE

\* handle_https_request_implicit has read the whole of a POST /token made
\* with the `state` of the attempt, and its acknowledgement is taken
PostedWithState ==
    /\ cb_result # <<>>
    /\ conn # NoConn
    /\ conn.rd
    /\ StartsWithPostToken(conn)
    /\ conn.hdr
    /\ conn.clen = "exact"
    /\ conn.utf8
    /\ conn.wr
    /\ conn.json.state = lstate
\* the query has the expected state and no error
StateMatchesNoError ==
    /\ Validated
    /\ parse_query_params(cb_request.query[1]).error = <<>>
    /\ parse_query_params(cb_request.query[1]).state = <<cb_request.expected>>

\* C24 (as claimed): with the expected state and no error, the handler goes
\* on to the token iff the required field is there: the code in the code
\* flow, the access token in the implicit flow.
C24_SuccessIffRequiredField ==
    /\ StateMatchesNoError
        => (cb_result[1].exchanged <=> parse_query_params(cb_request.query[1]).code # <<>>)
    /\ PostedWithState
        => (cb_result[1].tag = "some" <=> conn.json.access_token # <<>>)

\* C24 (amended): in the implicit flow the body must carry access_token,
\* token_type and scope.
C24_SuccessIffRequiredFields ==
    /\ StateMatchesNoError
        => (cb_result[1].exchanged <=> parse_query_params(cb_request.query[1]).code # <<>>)
    /\ PostedWithState
        => (cb_result[1].tag = "some"
                <=> (conn.json.access_token # <<>> /\ conn.json.token_type # <<>> /\ conn.json.scope))
\* a code-flow callback with the expected state, a code and no error has
\* been exchanged for a token
C24_Witness ==
    /\ StateMatchesNoError
    /\ parse_query_params(cb_request.query[1]).code # <<>>
    /\ cb_result[1].tag = "some"

\* C25: a call of validate_token changes neither the token of the client
\* nor the token of the shared config or of config.toml, and two calls in a
\* row with the same token against the same answer of the provider return
\* the same result.
C25_ValidateIsPureRead ==
    /\ [][(call'.op = "validate_token" /\ gResult' # gResult)
            => (access_token' = access_token /\ config_token' = config_token
                    /\ file_token' = file_token)]_vars
    /\ []((call.op = "validate_token" /\ Len(gResult) = 2) => gResult[1] = gResult[2])
\* a valid token has been validated twice
C25_Witness ==
    /\ call.op = "validate_token"
    /\ access_token # <<>>
    /\ Len(gResult) = 2
    /\ gResult[1].ok
    /\ gResult[2].ok

\* the channel of the running attempt holds no value and its sender is alive
ChannelPending == chan[attempt].val = <<>> /\ chan[attempt].tx

\* C26: the wait of authenticate() ends only on a value sent by the listener
\* or on the closing of the channel; while neither has happened no step of
\* authenticate() is possible, whatever time passes.
C26_NoTimeout ==
    /\ [][(apc = "await" /\ apc' # "await") => ~ChannelPending]_vars
    /\ []((apc = "await" /\ ChannelPending) => ~ENABLED receive)
\* every connection of the bound was handled without an outcome and
\* authenticate() is still waiting
C26_Witness ==
    /\ apc = "await"
    /\ ChannelPending
    /\ lpc = "accept"
    /\ accepted = MaxConns

\* the page that answers the i-th request ends the loop: a failure, or no
\* cursor
StopsAt(i) == Response(i) \notin OkPages \/ PaginationCursor(Response(i)) = <<>>

\* C27: get_followed_channels returns only on a failed request or on a page
\* without a cursor, however many pages came before; while every page
\* carries a cursor it stays in its loop and the next request is issued;
\* and once a page that ends the loop is among the coming ones, it returns.
C27_TerminatesOnlyWithoutCursor ==
    /\ []((call.op = "get_followed_channels" /\ gpc = "done" /\ access_token # <<>>)
            => (requests # <<>> /\ StopsAt(Len(requests))))
    /\ []((call.op = "get_followed_channels" /\ access_token # <<>>
              /\ \A i \in 1..Len(requests) : ~StopsAt(i))
            => (gpc = "loop" /\ (Len(requests) < MaxRequests => ENABLED get_followed_channels_page)))
    /\ (gpc = "loop" /\ \E i \in 1..MaxRequests : StopsAt(i)) ~> (gpc = "done")
\* a provider that gives a cursor on every page: the loop has used up the
\* bound on requests and has not returned
C27_Witness ==
    /\ call.op = "get_followed_channels"
    /\ gpc = "loop"
    /\ Len(requests) = MaxRequests
    /\ \A i \in 1..MaxRequests : ~StopsAt(i)

\* C28: in an attempt the nonce exists before the listener is bound, the
\* listener is bound and spawned before the browser is opened, the browser
\* is opened before authenticate() waits; the URL given to the browser
\* carries the nonce the listener task holds, and no two attempts put the
\* same nonce in their URL.
C28_StepsInOrder ==
    /\ [](\A a \in Attempts :
            /\ binds[a] > 0 => (a <= attempt /\ (a = attempt => nonce # NoState))
            /\ spawned[a] => binds[a] > 0
            /\ opened[a] > 0 => (spawned[a] /\ auth_url[a] # NoState))
    /\ [](apc = "await" => (opened[attempt] = 1 /\ spawned[attempt]))
    /\ []((attempt > 0 /\ opened[attempt] > 0)
            => (auth_url[attempt] = nonce /\ latt = attempt /\ lstate = nonce))
    /\ [](\A a, b \in Attempts :
            (a # b /\ auth_url[a] # NoState) => auth_url[a] # auth_url[b])
    /\ [][opened' # opened => (apc = "browser" /\ apc' \in {"await", "done"})]_vars
\* a second attempt waits with its own nonce in the URL and in the listener
C28_Witness ==
    /\ attempt = 2
    /\ apc = "await"
    /\ auth_url[1] # NoState
    /\ auth_url[2] = nonce
    /\ lstate = nonce

\* C29 (as claimed): handling a request whose line was read and that is not
\* a POST to /token sends nothing on the channel and leaves the listener
\* accepting.
C29_OtherRequestNoResult ==
    [][(lpc = "handle" /\ conn.rd /\ ~StartsWithPostToken(conn) /\ lpc' # "handle")
            => (lpc' = "accept" /\ sends' = sends /\ chan' = chan)]_vars

\* ------------------------------------------------------- claims C31 .. C38
\* run has not reached run_with_tray
BeforeTray == ipc \in {"run", "validate", "auth", "auth_save", "get_user"}
\* run_with_tray or the periodic loop is at work
Polling ==
    ipc \in {"initial_update", "initial_inflight", "tick", "update", "inflight",
             "sleep", "reauth", "reauth_save", "reauth_user"}

\* C31: update_streams runs only while the client holds a token and
\* authenticated_user is set; run enters run_with_tray only from a successful
\* get_user; before that no poll is started and a failure ends run for good;
\* authenticated_user, once set, stays set.
C31_PollsOnlyAuthenticated ==
    /\ [](Polling => (access_token # <<>> /\ authenticated_user # <<>>))
    /\ [][(ipc' = "initial_update" /\ ipc # "initial_update")
            => (ipc = "get_user" /\ access_token' # <<>> /\ authenticated_user' # <<>>)]_vars
    /\ [][BeforeTray
            => (inflight' = inflight /\ ticks' = ticks /\ tray_pc' = "none"
                /\ (BeforeTray' \/ ipc' \in {"exit", "imported", "initial_update"}))]_vars
    /\ [][ipc = "exit"
            => (ipc' = "exit" /\ inflight' = inflight /\ ticks' = ticks
                /\ api_requests' = api_requests)]_vars
    /\ [][authenticated_user # <<>> => authenticated_user' = authenticated_user
                                        \/ (ipc = "reauth_user" /\ authenticated_user' # <<>>)]_vars
\* the loop polls after a fresh authentication and a successful get_user
C31_Witness ==
    /\ ipc = "inflight"
    /\ ticks >= 1
    /\ auth_call.state = "ok"
    /\ authenticated_user = <<"u1">>
    /\ access_token = <<"T1">>

\* C32: the tracked set holds only ids of current_streams, and only ids
\* whose notification was displayed.
C32_TrackedAreLiveAndNotified ==
    /\ shown_streams \subseteq StreamIds(current_streams)
    /\ \A s \in shown_streams : notify_count[s] >= 1
\* a periodic poll succeeded after s2, live at the first poll, went offline
C32_Witness ==
    /\ ipc = "sleep"
    /\ ticks >= 1
    /\ UpdateResult.ok
    /\ tray_streams = <<"s1", "s2">>
    /\ current_streams = <<"s1">>
    /\ shown_streams = {"s1"}

\* C33: over the successful polls since an id was last absent, its
\* notification is displayed at most once.
C33_NotifiedOncePerRun ==
    \A s \in StreamIdSet : notify_count[s] <= 1
\* s1 was live at the first poll and at the poll after it, both successful,
\* and was notified once
C33_Witness ==
    /\ notify_enabled
    /\ ipc = "sleep"
    /\ ticks = 1
    /\ UpdateResult.ok
    /\ tray_streams = <<"s1">>
    /\ current_streams = <<"s1">>
    /\ notify_count["s1"] = 1
    /\ notified = 1

\* C34: an id whose notification failed is not tracked; the other live
\* streams are tracked and the poll completes with the new stream list; at
\* the next successful poll that still has the id, its notification is
\* attempted again (it ends displayed or failed anew).
C34_FailedNotificationRetried ==
    /\ [](failed \cap shown_streams = {})
    /\ [](notify_enabled => (StreamIds(current_streams) \ failed) \subseteq shown_streams)
    /\ [][(ipc \in {"initial_inflight", "inflight"} /\ UpdateResult.ok /\ ipc' \notin {ipc, "quit"})
            => /\ current_streams' = UpdateResult.data
               /\ ipc' \in {"sleep", "tick", "exit"}
               /\ failed' \subseteq StreamIds(current_streams')
               /\ \A s \in failed :
                    s \in StreamIds(current_streams') => s \in (shown_streams' \cup failed')]_vars
\* the notification of s1 failed in a periodic poll that notified s2
C34_Witness ==
    /\ ipc = "sleep"
    /\ ticks >= 1
    /\ UpdateResult.ok
    /\ current_streams = <<"s1", "s2">>
    /\ failed = {"s1"}
    /\ shown_streams = {"s2"}
    /\ notified >= 1

\* C35 (as claimed): once the tray runs, its stream list is the result of
\* the most recent successful poll.
C35_TrayShowsLatestPoll ==
    tray_pc # "none" => tray_streams = current_streams

\* C38: once run_with_tray has returned, no tick is consumed, no request is
\* sent, no re-authentication is started and the loop does not move.
C38_NoCycleAfterReturn ==
    /\ [](tray_pc = "returned" => (ipc = "quit" /\ inflight = 0))
    /\ [][tray_pc = "returned"
            => (ipc' = ipc /\ ticks' = ticks /\ inflight' = inflight
                /\ api_requests' = api_requests /\ reauths' = reauths)]_vars
\* Quit ended the tray loop while the interval timer had ticks to deliver
C38_Witness ==
    /\ tray_pc = "returned"
    /\ ticks = 1
    /\ api_requests >= 2

\* the listener holds a connection whose peer never completes the await the
\* listener is in
Stalled ==
    \/ lpc = "handshake" /\ conn.stall = "handshake"
    \/ lpc = "handle" /\ conn.stall = "request"

\* C36: a connection is accepted only when the listener holds none; the
\* step that handles a well-formed token POST sends on the channel and ends
\* the listener, and the waiting authenticate() then returns; while the
\* listener holds a stalled connection it accepts no other and sends nothing.
C36_OneConnectionAtATime ==
    /\ [][accepted' # accepted
            => (lpc = "accept" /\ conn = NoConn /\ lpc' = "handshake")]_vars
    /\ [][(lpc = "handle" /\ lpc' # lpc /\ StartsWithPostToken(conn)
                /\ DecodesAsTokenResponse(conn.json) /\ conn.hdr /\ conn.utf8
                /\ conn.clen = "exact")
            => (lpc' = "exited" /\ sends'[latt] = 1
                /\ (chan[latt].rx => chan'[latt].val # <<>>))]_vars
    /\ (lpc = "handle" /\ latt = attempt /\ apc = "await" /\ conn \in TokenPosts)
            ~> (apc = "done" /\ lpc = "exited")
    /\ [][Stalled => (lpc' = lpc /\ conn' = conn /\ accepted' = accepted
                       /\ sends' = sends /\ ports' = ports)]_vars
    /\ [](Stalled /\ apc = "await" /\ latt = attempt => ~ENABLED receive)
\* the second connection stalls in its handshake while authenticate() waits
C36_Witness ==
    /\ Stalled
    /\ lpc = "handshake"
    /\ accepted = 2
    /\ accepted < MaxConns
    /\ apc = "await"
    /\ latt = attempt

\* ------------------------------------------- import_settings on its own
\* the settings a config.toml may hold when main loads it
LoadedSettings ==
    {DefaultSettings,
     [DefaultSettings EXCEPT !.refresh_interval_minutes = 1, !.timeout_ms = MaxTimeoutMs]}
\* the values the user may leave in the two spin buttons
SpinIntervals == {1, DefaultSettings.refresh_interval_minutes}
SpinTimeouts == {DefaultSettings.timeout_ms}

\* main with --import-settings after Config::load_or_create and
\* TwitchIndicator::new: the shared config is the one of config.toml
ImportInit ==
    /\ OAuthInit
    /\ pages = <<>>
    /\ gpc = "idle"
    /\ cursor = <<>>
    /\ all_channels = <<>>
    /\ requests = <<>>
    /\ gResult = <<>>
    /\ call = NoCall
    /\ config_token \in {<<>>, <<"T0">>}
    /\ access_token = config_token
    /\ notify_enabled \in BOOLEAN
    /\ ipc = "run"
    /\ authenticated_user = <<>>
    /\ current_streams = <<>>
    /\ shown_streams = {}
    /\ notified = 0
    /\ resp = NoResponse
    /\ inflight = 0
    /\ ticks = 0
    /\ api_requests = 0
    /\ reauths = 0
    /\ file_token = config_token
    /\ auth_call = NoAuthCall
    /\ spc = "none"
    /\ settings_token = <<>>
    /\ settings_client_id = ""
    /\ failed = {}
    /\ notify_count = [s \in StreamIdSet |-> 0]
    /\ tray_streams = <<>>
    /\ tray_pc = "none"
    /\ config_settings \in LoadedSettings
    /\ file_settings = config_settings
    /\ import_file = NoImport

ImportNext ==
    \/ \E file \in ImportFiles, saved \in BOOLEAN : import_settings(file, saved)
    \/ gtk_settings
    \/ \E saved \in BOOLEAN, interval \in SpinIntervals, timeout \in SpinTimeouts :
            show_sync_apply(saved, interval, timeout)
    \/ show_sync_close

ImportSpec == ImportInit /\ [][ImportNext]_vars

\* the file cannot be read, cannot be parsed, or holds settings outside the
\* limits
Rejected(file) ==
    \/ ~file.read
    \/ ~file.parse
    \/ file.settings.refresh_interval_minutes \notin 1..MaxRefreshInterval
    \/ file.settings.timeout_ms > MaxTimeoutMs
    \/ file.settings.client_id = ""

\* C37: a call of import_settings with a file that cannot be read or parsed
\* or whose settings are outside the limits returns an error and leaves the
\* shared config and config.toml as they were; only a file within the limits
\* replaces the shared config.
C37_ImportOnlyIfValid ==
    [][import_file' # import_file
        => IF Rejected(import_file')
           THEN /\ ipc' = "exit"
                /\ config_token' = config_token
                /\ config_settings' = config_settings
                /\ file_token' = file_token
                /\ file_settings' = file_settings
           ELSE /\ ipc' = "imported"
                /\ config_token' = import_file'.access_token
                /\ config_settings' = import_file'.settings]_vars
\* a readable, well-formed file with a refresh interval of 61 was refused
C37_Witness ==
    /\ ipc = "exit"
    /\ import_file.read
    /\ import_file.parse
    /\ import_file.settings.refresh_interval_minutes = MaxRefreshInterval + 1
    /\ import_file.settings.timeout_ms = MaxTimeoutMs
    /\ import_file.settings.client_id = "id"
    /\ import_file.access_token = <<"T2">>
    /\ config_token = <<"T0">>
    /\ file_token = <<"T0">>
    /\ config_settings = DefaultSettings

====
